---- MODULE Spec2Model ----
(***************************************************************************)
(* fast-celery-ping: the protocol codec (internal/protocol/handler.go) and *)
(* the two broker transports (RedisBroker, AMQPBroker) with their          *)
(* time-bounded collection loops.                                          *)
(*                                                                         *)
(* Text is modelled as a sequence of one-character strings, so that the    *)
(* substring tests, the JSON decoding and the base64 decoding of the code  *)
(* are computed and not assumed.  Time is counted in ticks of 50ms.        *)
(***************************************************************************)
EXTENDS Integers, Sequences, FiniteSets, TLC

(***************************************************************************)
(* Text                                                                    *)
(***************************************************************************)

\* The character of code 96, which the lexer of the tools does not accept
\* inside a string.
Backquote == "BQ"

\* The printable ASCII characters, code 32 (space) to code 126 (~).
Ascii ==
  << " ", "!", "\"", "#", "$", "%", "&", "'", "(", ")", "*", "+", ",", "-",
     ".", "/", "0", "1", "2", "3", "4", "5", "6", "7", "8", "9", ":", ";",
     "<", "=", ">", "?", "@", "A", "B", "C", "D", "E", "F", "G", "H", "I",
     "J", "K", "L", "M", "N", "O", "P", "Q", "R", "S", "T", "U", "V", "W",
     "X", "Y", "Z", "[", "\\", "]", "^", "_", Backquote, "a", "b", "c", "d", "e",
     "f", "g", "h", "i", "j", "k", "l", "m", "n", "o", "p", "q", "r", "s",
     "t", "u", "v", "w", "x", "y", "z", "{", "|", "}", "~" >>

HexDigits ==
  << "0", "1", "2", "3", "4", "5", "6", "7", "8", "9", "a", "b", "c", "d",
     "e", "f" >>

\* The character of a byte that is not printable ASCII and not tab, line
\* feed or carriage return: x and the two hexadecimal digits of the byte.
ByteName(b) == "x" \o HexDigits[(b \div 16) + 1] \o HexDigits[(b % 16) + 1]

\* The character of a byte value.
ByteToChar(b) ==
  IF b >= 32 /\ b <= 126 THEN Ascii[b - 31]
  ELSE IF b = 9 THEN "\t"
  ELSE IF b = 10 THEN "\n"
  ELSE IF b = 13 THEN "\r"
  ELSE ByteName(b)

\* The characters of the bytes below 0x20.
ControlChars == {ByteToChar(b) : b \in 0..31}

\* The characters of the bytes from 0x80 on (utf8.RuneSelf).
HighChars == {ByteToChar(b) : b \in 128..255}

\* The byte value of a character.
CharCode(c) ==
  IF \E i \in 1..Len(Ascii) : Ascii[i] = c
  THEN (CHOOSE i \in 1..Len(Ascii) : Ascii[i] = c) + 31
  ELSE CHOOSE b \in (0..31) \cup (127..255) : ByteToChar(b) = c

\* The text of the bytes bs.
BytesText(bs) == [i \in 1..Len(bs) |-> ByteToChar(bs[i])]

\* strings.Contains(s, sub) on character sequences.
Contains(s, sub) ==
  \E i \in 1..(Len(s) - Len(sub) + 1) : SubSeq(s, i, i + Len(sub) - 1) = sub

Digits == {"0", "1", "2", "3", "4", "5", "6", "7", "8", "9"}

Whitespace == {" ", "\t", "\n", "\r"}

(***************************************************************************)
(* unicode/utf8 and unicode/utf16                                          *)
(***************************************************************************)

\* The size of the encoding that the first byte b0, at position i of s,
\* starts: the second byte lies in the range that the first one accepts,
\* the others are continuation bytes.
Utf8SizeFrom(s, i, b0, b1) ==
  LET n == IF b0 < 128 THEN 1
           ELSE IF b0 >= 194 /\ b0 <= 223 THEN 2
           ELSE IF b0 >= 224 /\ b0 <= 239 THEN 3
           ELSE IF b0 >= 240 /\ b0 <= 244 THEN 4
           ELSE 0
  IN  IF n <= 1 THEN n
      ELSE IF i + n - 1 > Len(s) THEN 0
      ELSE IF /\ b1 >= (IF b0 = 224 THEN 160 ELSE IF b0 = 240 THEN 144 ELSE 128)
              /\ b1 <= (IF b0 = 237 THEN 159 ELSE IF b0 = 244 THEN 143 ELSE 191)
              /\ \A k \in 2..(n - 1) : s[i + k] \in HighChars
              /\ \A k \in 2..(n - 1) : CharCode(s[i + k]) <= 191
           THEN n
      ELSE 0

\* utf8.DecodeRune at position i of s: the number of bytes of the well-formed
\* encoding that starts there, 0 when there is none (RuneError, size 1).
Utf8Size(s, i) ==
  Utf8SizeFrom(s, i, CharCode(s[i]),
               IF i < Len(s) THEN CharCode(s[i + 1]) ELSE 0)

\* The encoding of unicode.ReplacementChar, U+FFFD.
ReplacementText == BytesText(<<239, 191, 189>>)

\* utf8.EncodeRune(r)
EncodeRune(r) ==
  IF r < 128 THEN <<ByteToChar(r)>>
  ELSE IF r < 2048 THEN BytesText(<<192 + (r \div 64), 128 + (r % 64)>>)
  ELSE IF r > 1114111 \/ (r >= 55296 /\ r <= 57343) THEN ReplacementText
  ELSE IF r < 65536
       THEN BytesText(<<224 + (r \div 4096), 128 + ((r \div 64) % 64),
                        128 + (r % 64)>>)
  ELSE BytesText(<<240 + (r \div 262144), 128 + ((r \div 4096) % 64),
                   128 + ((r \div 64) % 64), 128 + (r % 64)>>)

\* utf16.DecodeRune(r1, r2): the code point of a surrogate pair, else
\* unicode.ReplacementChar.
Utf16DecodeRune(r1, r2) ==
  IF r1 >= 55296 /\ r1 < 56320 /\ r2 >= 56320 /\ r2 < 57344
  THEN (r1 - 55296) * 1024 + (r2 - 56320) + 65536
  ELSE 65533

\* The value of a hexadecimal digit, -1 for every other character.
HexValue(c) ==
  IF c \in Digits THEN CharCode(c) - 48
  ELSE IF c \in {"a", "b", "c", "d", "e", "f"} THEN CharCode(c) - 87
  ELSE IF c \in {"A", "B", "C", "D", "E", "F"} THEN CharCode(c) - 55
  ELSE -1

(***************************************************************************)
(* Integers of 64 bits and float64                                         *)
(***************************************************************************)

\* A natural number beyond the 32 bits of the integers of the tools: its
\* digits to the base 2^15 = 32768, the lowest first.  The highest digit is
\* not 0, and zero is the empty sequence.

\* The digit at position i of a, 0 beyond both ends.
BigDigit(a, i) == IF i >= 1 /\ i <= Len(a) THEN a[i] ELSE 0

\* The digits a without the zeros at the high end.
BigTrim(a) ==
  IF \E i \in 1..Len(a) : a[i] # 0
  THEN SubSeq(a, 1, CHOOSE i \in 1..Len(a) :
                      a[i] # 0 /\ \A j \in (i + 1)..Len(a) : a[j] = 0)
  ELSE <<>>

\* The number n, which is not negative, of the tools.
Big(n) ==
  BigTrim(<<n % 32768, (n \div 32768) % 32768, n \div 1073741824>>)

\* a < b
BigLess(a, b) ==
  \/ Len(a) < Len(b)
  \/ /\ Len(a) = Len(b)
     /\ \E i \in 1..Len(a) :
          a[i] < b[i] /\ \A j \in (i + 1)..Len(a) : a[j] = b[j]

\* The addition of a and b carries into digit i.
BigCarry(a, b, i) ==
  \E j \in 1..(i - 1) :
    /\ BigDigit(a, j) + BigDigit(b, j) >= 32768
    /\ \A k \in (j + 1)..(i - 1) : BigDigit(a, k) + BigDigit(b, k) = 32767

\* a + b
BigPlus(a, b) ==
  BigTrim([i \in 1..((IF Len(a) < Len(b) THEN Len(b) ELSE Len(a)) + 1) |->
             (BigDigit(a, i) + BigDigit(b, i)
                + (IF BigCarry(a, b, i) THEN 1 ELSE 0)) % 32768])

\* The subtraction of b from a borrows from digit i.
BigBorrow(a, b, i) ==
  \E j \in 1..(i - 1) :
    /\ BigDigit(a, j) < BigDigit(b, j)
    /\ \A k \in (j + 1)..(i - 1) : BigDigit(a, k) = BigDigit(b, k)

\* a - b, for b <= a
BigMinus(a, b) ==
  BigTrim([i \in 1..Len(a) |->
             (32768 + a[i] - BigDigit(b, i)
                - (IF BigBorrow(a, b, i) THEN 1 ELSE 0)) % 32768])

\* a * n, for a number n up to 32768: the low parts of the products of the
\* digits, plus their high parts one digit up.
BigTimesDigit(a, n) ==
  IF a = <<>> \/ n = 0 THEN <<>>
  ELSE BigPlus([i \in 1..Len(a) |-> (a[i] * n) % 32768],
               <<0>> \o [i \in 1..Len(a) |-> (a[i] * n) \div 32768])

RECURSIVE BigColumn(_, _, _, _, _)
\* The sum of the low parts (the high ones when high) of the products
\* a[j] * b[k + 1 - j] of the digits, for j from i on: they stand at
\* position k (k + 1) of a * b.
BigColumn(a, b, k, i, high) ==
  IF i > Len(a) \/ i > k THEN 0
  ELSE (IF high THEN (a[i] * BigDigit(b, k + 1 - i)) \div 32768
        ELSE (a[i] * BigDigit(b, k + 1 - i)) % 32768)
       + BigColumn(a, b, k, i + 1, high)

\* What stands at position k of a * b before the carries.
BigColumns(a, b, k) ==
  BigColumn(a, b, k, 1, FALSE) + BigColumn(a, b, k - 1, 1, TRUE)

\* a * b
BigTimes(a, b) ==
  IF a = <<>> \/ b = <<>> THEN <<>>
  ELSE BigPlus([k \in 1..(Len(a) + Len(b)) |-> BigColumns(a, b, k) % 32768],
               <<0>> \o [k \in 1..(Len(a) + Len(b)) |->
                          BigColumns(a, b, k) \div 32768])

\* a * 2^k
BigShiftLeft(a, k) ==
  BigTrim([i \in 1..(Len(a) + (k \div 15) + 1) |->
             IF i <= k \div 15 THEN 0
             ELSE (BigDigit(a, i - (k \div 15)) % (2 ^ (15 - (k % 15))))
                    * (2 ^ (k % 15))
                  + (BigDigit(a, i - (k \div 15) - 1)
                       \div (2 ^ (15 - (k % 15))))])

\* The whole part of a / 2^k
BigShiftRight(a, k) ==
  BigTrim([i \in 1..(Len(a) - (k \div 15)) |->
             (a[i + (k \div 15)] \div (2 ^ (k % 15)))
               + (BigDigit(a, i + (k \div 15) + 1) % (2 ^ (k % 15)))
                   * (2 ^ (15 - (k % 15)))])

\* a modulo 2^k
BigLowBits(a, k) ==
  BigTrim([i \in 1..((k \div 15) + 1) |->
             IF i <= k \div 15 THEN BigDigit(a, i)
             ELSE BigDigit(a, i) % (2 ^ (k % 15))])

\* The number of bits of a: 0 for zero.
BigBitLen(a) ==
  IF a = <<>> THEN 0
  ELSE 15 * (Len(a) - 1)
         + (CHOOSE n \in 1..15 : a[Len(a)] >= 2 ^ (n - 1) /\ a[Len(a)] < 2 ^ n)

\* The quotient of the two highest digits of r by the highest digit of d,
\* one digit at most: r is below d * 32768, and has one digit more than d
\* at most.
BigQuotientEstimate(r, d) ==
  IF (BigDigit(r, Len(d) + 1) * 32768 + BigDigit(r, Len(d))) \div d[Len(d)]
       > 32767
  THEN 32767
  ELSE (BigDigit(r, Len(d) + 1) * 32768 + BigDigit(r, Len(d))) \div d[Len(d)]

\* The digit g with g * d <= r < (g + 1) * d: the estimate or up to 2
\* less, the highest digit of d being 16384 or more.
BigQuotientNear(r, d, estimate) ==
  CHOOSE g \in (estimate - 2)..estimate :
    /\ g >= 0
    /\ ~BigLess(r, BigTimesDigit(d, g))
    /\ BigLess(r, BigTimesDigit(d, g + 1))

BigQuotientDigit(r, d) == BigQuotientNear(r, d, BigQuotientEstimate(r, d))

RECURSIVE BigDivideFrom(_, _, _)
\* The long division of a by d, of the digits of a from position i up: q
\* holds the digits of the quotient, r the rest.  The digit of a at
\* position i is put below the rest r of the digits above it, and the
\* digit g of the quotient is taken from that.  The highest digits of a,
\* one fewer than d has, are the rest to begin with.
BigDivideTake(d, q, r, g) ==
  [q |-> <<g>> \o q, r |-> BigMinus(r, BigTimesDigit(d, g))]

BigDivideDigit(d, q, r) == BigDivideTake(d, q, r, BigQuotientDigit(r, d))

BigDivideBelow(digit, d, above) ==
  IF above.r = <<>> /\ digit = 0 THEN [q |-> <<0>> \o above.q, r |-> <<>>]
  ELSE BigDivideDigit(d, above.q, BigTrim(<<digit>> \o above.r))

BigDivideFrom(a, d, i) ==
  IF i > Len(a) - Len(d) + 1
  THEN [q |-> <<>>, r |-> BigTrim(SubSeq(a, i, Len(a)))]
  ELSE BigDivideBelow(a[i], d, BigDivideFrom(a, d, i + 1))

\* The whole part q and the rest r of a / d, for d > 0: both are shifted
\* left by as many bits as take the highest digit of d to 16384 or more.
BigDivideResult(division, shift) ==
  [q |-> BigTrim(division.q), r |-> BigShiftRight(division.r, shift)]

BigDivideShifted(a, d, shift) ==
  BigDivideResult(BigDivideFrom(BigShiftLeft(a, shift),
                                BigShiftLeft(d, shift), 1), shift)

BigDivide(a, d) == BigDivideShifted(a, d, 15 * Len(d) - BigBitLen(d))

RECURSIVE BigOfText(_, _, _)
\* The number that the decimal digits of s from position i on continue,
\* x being the number of the digits before them.
BigOfText(s, i, x) ==
  IF i > Len(s) THEN x
  ELSE IF x = <<>> THEN BigOfText(s, i + 1, Big(CharCode(s[i]) - 48))
  ELSE BigOfText(s, i + 1,
                 BigPlus(BigTimesDigit(x, 10), Big(CharCode(s[i]) - 48)))

RECURSIVE BigText(_)
\* strconv.FormatUint(a, 10): the decimal digits of a.
BigText(a) ==
  IF Len(a) <= 1 /\ BigDigit(a, 1) < 10 THEN <<Ascii[BigDigit(a, 1) + 17]>>
  ELSE Append(BigText(BigDivide(a, <<10>>).q),
              Ascii[BigDigit(BigDivide(a, <<10>>).r, 1) + 17])

\* 1 << 63, and 1 << 64
TwoTo63 == BigShiftLeft(<<1>>, 63)

TwoTo64 == BigShiftLeft(<<1>>, 64)

\* 1<<63 - 1, the greatest int64, and (1<<63) / 10, which is the whole part
\* of (1<<63 - 1) / 10 as well
MaxInt64 == BigMinus(TwoTo63, <<1>>)

TwoTo63Tenth == BigDivide(TwoTo63, <<10>>).q

\* A Go integer of 64 bits (int, int64, time.Duration): its sign and its
\* magnitude n, a natural number as above; zero has no sign.
Duration(neg, count) == [neg |-> neg /\ count # <<>>, n |-> count]

\* The Go int n, for a number of the tools.
GoInt(n) == IF n < 0 THEN Duration(TRUE, Big(0 - n)) ELSE Duration(FALSE, Big(n))

\* n * time.Millisecond
Milliseconds(n) ==
  IF n < 0 THEN Duration(TRUE, BigTimes(Big(0 - n), Big(1000000)))
  ELSE Duration(FALSE, BigTimes(Big(n), Big(1000000)))

\* d > 0 on a Go integer
Positive(d) == ~d.neg /\ d.n # <<>>

\* A float64 that is not negative: m * 2^e, with m below 2^53.  (The
\* exponent has no bounds here: the numbers of ParseDuration whose exponent
\* is beyond those of float64 give products below 1.)
Float(m, e) == [m |-> m, e |-> e]

\* m * 2^e with m of more than 53 bits, rounded to 53 bits, to the nearest
\* and to even on a tie; k is the number of bits that go, and above says
\* that the number is a little more than m * 2^e.
FloatRoundBits(m, e, k, above) ==
  IF \/ BigLess(BigShiftLeft(<<1>>, k - 1), BigLowBits(m, k))
     \/ /\ BigLowBits(m, k) = BigShiftLeft(<<1>>, k - 1)
        /\ (above \/ BigDigit(BigShiftRight(m, k), 1) % 2 = 1)
  THEN Float(BigPlus(BigShiftRight(m, k), <<1>>), e + k)
  ELSE Float(BigShiftRight(m, k), e + k)

\* The float64 nearest to m * 2^e (a little more than that when above).
FloatRound(m, e, above) ==
  IF BigBitLen(m) <= 53 THEN Float(m, e)
  ELSE FloatRoundBits(m, e, BigBitLen(m) - 53, above)

\* float64(n) of an integer
FloatOf(n) == FloatRound(n, 0, FALSE)

\* x * y on float64
FloatTimes(x, y) ==
  IF x.m = <<>> \/ y.m = <<>> THEN Float(<<>>, 0)
  ELSE FloatRound(BigTimes(x.m, y.m), x.e + y.e, FALSE)

\* The float64 nearest to a quotient of integers with the whole part q, of
\* 55 bits or more, and the rest r, times 2^e.
FloatOfQuotient(division, e) == FloatRound(division.q, e, division.r # <<>>)

\* x / y on float64, with the dividend shifted left by k bits, enough for
\* a quotient of 55 bits.
FloatDivideShifted(x, y, k) ==
  FloatOfQuotient(BigDivide(BigShiftLeft(x.m, k), y.m), x.e - y.e - k)

\* x / y on float64, for y > 0
FloatDivide(x, y) ==
  IF x.m = <<>> THEN x
  ELSE FloatDivideShifted(x, y,
         IF 55 + BigBitLen(y.m) > BigBitLen(x.m)
         THEN 55 + BigBitLen(y.m) - BigBitLen(x.m) ELSE 0)

\* uint64(x) of a float64: its whole part
FloatTruncate(x) ==
  IF x.e >= 0 THEN BigShiftLeft(x.m, x.e) ELSE BigShiftRight(x.m, 0 - x.e)

(***************************************************************************)
(* JSON documents, as encoding/json decodes them into interface{} values   *)
(***************************************************************************)

JNull == [t |-> "null"]

JBool(b) == [t |-> "bool", b |-> b]

\* A number is kept as its literal text.
JNum(l) == [t |-> "num", l |-> l]

JStr(s) == [t |-> "str", s |-> s]

JArr(a) == [t |-> "arr", a |-> a]

\* An object is a function from its keys (character sequences) to values.
JObj(o) == [t |-> "obj", o |-> o]

EmptyMap == [k \in {} |-> JNull]

\* m[k] = v on a Go map: a repeated key keeps the last value.
MapPut(m, k, v) == [x \in (DOMAIN m) \cup {k} |-> IF x = k THEN v ELSE m[x]]

\* The result of a failed decoding step.
Fail == [ok |-> FALSE, v |-> JNull, i |-> 0]

Got(v, i) == [ok |-> TRUE, v |-> v, i |-> i]

RECURSIVE SkipWs(_, _)
\* The first position at or after i that holds no whitespace.
SkipWs(s, i) ==
  IF i <= Len(s) /\ s[i] \in Whitespace THEN SkipWs(s, i + 1) ELSE i

RECURSIVE SkipDigits(_, _)
SkipDigits(s, i) ==
  IF i <= Len(s) /\ s[i] \in Digits THEN SkipDigits(s, i + 1) ELSE i

\* The decimal digits of 2^1024 - 2^970, the number halfway between the
\* largest float64 and 2^1024: strconv.ParseFloat(s, 64) rounds to the
\* nearest float64, so it is the least number that is out of range.
Float64Limit ==
  << "1", "7", "9", "7", "6", "9", "3", "1", "3", "4", "8", "6", "2", "3",
     "1", "5", "8", "0", "7", "9", "3", "7", "2", "8", "9", "7", "1", "4",
     "0", "5", "3", "0", "3", "4", "1", "5", "0", "7", "9", "9", "3", "4",
     "1", "3", "2", "7", "1", "0", "0", "3", "7", "8", "2", "6", "9", "3",
     "6", "1", "7", "3", "7", "7", "8", "9", "8", "0", "4", "4", "4", "9",
     "6", "8", "2", "9", "2", "7", "6", "4", "7", "5", "0", "9", "4", "6",
     "6", "4", "9", "0", "1", "7", "9", "7", "7", "5", "8", "7", "2", "0",
     "7", "0", "9", "6", "3", "3", "0", "2", "8", "6", "4", "1", "6", "6",
     "9", "2", "8", "8", "7", "9", "1", "0", "9", "4", "6", "5", "5", "5",
     "5", "4", "7", "8", "5", "1", "9", "4", "0", "4", "0", "2", "6", "3",
     "0", "6", "5", "7", "4", "8", "8", "6", "7", "1", "5", "0", "5", "8",
     "2", "0", "6", "8", "1", "9", "0", "8", "9", "0", "2", "0", "0", "0",
     "7", "0", "8", "3", "8", "3", "6", "7", "6", "2", "7", "3", "8", "5",
     "4", "8", "4", "5", "8", "1", "7", "7", "1", "1", "5", "3", "1", "7",
     "6", "4", "4", "7", "5", "7", "3", "0", "2", "7", "0", "0", "6", "9",
     "8", "5", "5", "5", "7", "1", "3", "6", "6", "9", "5", "9", "6", "2",
     "2", "8", "4", "2", "9", "1", "4", "8", "1", "9", "8", "6", "0", "8",
     "3", "4", "9", "3", "6", "4", "7", "5", "2", "9", "2", "7", "1", "9",
     "0", "7", "4", "1", "6", "8", "4", "4", "4", "3", "6", "5", "5", "1",
     "0", "7", "0", "4", "3", "4", "2", "7", "1", "1", "5", "5", "9", "6",
     "9", "9", "5", "0", "8", "0", "9", "3", "0", "4", "2", "8", "8", "0",
     "1", "7", "7", "9", "0", "4", "1", "7", "4", "4", "9", "7", "7", "9",
     "2" >>

\* The first position where the texts a and b differ, 0 when one is the
\* beginning of the other.
FirstDifference(a, b) ==
  LET n == IF Len(a) < Len(b) THEN Len(a) ELSE Len(b) IN
  IF \E k \in 1..n : a[k] # b[k]
  THEN CHOOSE k \in 1..n : a[k] # b[k] /\ \A j \in 1..(k - 1) : a[j] = b[j]
  ELSE 0

\* The digits sig, read as d.ddd..., are at least Float64Limit read that way
\* (d is the position where they differ).
ReachesLimit(sig, d) ==
  IF d = 0 THEN Len(sig) >= Len(Float64Limit)
  ELSE CharCode(sig[d]) > CharCode(Float64Limit[d])

RECURSIVE ExponentValue(_, _, _)
\* The value of the exponent digits of s from position i on, as
\* strconv reads them: digits are taken while the value is below 10000.
ExponentValue(s, i, e) ==
  IF i > Len(s) THEN e
  ELSE ExponentValue(s, i + 1,
                     IF e < 10000 THEN e * 10 + (CharCode(s[i]) - 48) ELSE e)

\* The number whose digits (integer part, then fraction) are ds, with the
\* first digit that is not 0 at position p (0: there is none) and the
\* decimal point behind position point, times 10^e, is out of the range of
\* float64.
OutOfRange(ds, p, point, e) ==
  /\ p # 0
  /\ \/ point - p + e > 308
     \/ /\ point - p + e = 308
        /\ ReachesLimit(SubSeq(ds, p, Len(ds)),
                        FirstDifference(SubSeq(ds, p, Len(ds)), Float64Limit))

\* The first position of ds that holds a digit other than 0, 0 when there
\* is none.
FirstNonZero(ds) ==
  IF \E k \in 1..Len(ds) : ds[k] # "0"
  THEN CHOOSE k \in 1..Len(ds) : ds[k] # "0" /\ \A j \in 1..(k - 1) : ds[j] = "0"
  ELSE 0

\* strconv.ParseFloat(l, 64) returns ErrRange for the JSON number l, whose
\* integer part is l[a..b-1], whose fraction ends before position c and
\* whose exponent, if any, ends before position d.
NumberOutOfRange(l, a, b, c, d) ==
  OutOfRange(SubSeq(l, a, b - 1) \o SubSeq(l, b + 1, c - 1),
             FirstNonZero(SubSeq(l, a, b - 1) \o SubSeq(l, b + 1, c - 1)),
             b - a,
             IF d = c THEN 0
             ELSE IF l[c + 1] = "-" THEN 0 - ExponentValue(l, c + 2, 0)
             ELSE IF l[c + 1] = "+" THEN ExponentValue(l, c + 2, 0)
             ELSE ExponentValue(l, c + 1, 0))

\* The number that ends before position d of s: the decoder turns the
\* literal into a float64 (convertNumber) and fails when it is out of range.
ConvertNumber(s, i, a, b, c, d) ==
  IF NumberOutOfRange(SubSeq(s, 1, d - 1), a, b, c, d) THEN Fail
  ELSE Got(JNum(SubSeq(s, i, d - 1)), d)

\* A JSON number starting at i: -?(0|[1-9][0-9]*)(.[0-9]+)?([eE][+-]?[0-9]+)?
ScanNumber(s, i) ==
  LET a == IF i <= Len(s) /\ s[i] = "-" THEN i + 1 ELSE i
      b == IF a <= Len(s) /\ s[a] = "0" THEN a + 1
           ELSE IF a <= Len(s) /\ s[a] \in Digits THEN SkipDigits(s, a)
           ELSE 0
      c == IF b = 0 THEN 0
           ELSE IF b <= Len(s) /\ s[b] = "."
                THEN (IF SkipDigits(s, b + 1) > b + 1
                      THEN SkipDigits(s, b + 1) ELSE 0)
                ELSE b
      d == IF c = 0 THEN 0
           ELSE IF c <= Len(s) /\ s[c] \in {"e", "E"}
                THEN LET g == IF c + 1 <= Len(s) /\ s[c + 1] \in {"+", "-"}
                              THEN c + 2 ELSE c + 1
                     IN  IF SkipDigits(s, g) > g THEN SkipDigits(s, g) ELSE 0
                ELSE c
  IN  IF d = 0 THEN Fail ELSE ConvertNumber(s, i, a, b, c, d)

\* The characters that end a run of plain characters inside a JSON string:
\* the closing quote, the backslash, the control characters (illegal there)
\* and the bytes that start no ASCII character.
StringStops == {"\"", "\\"} \cup ControlChars \cup HighChars

\* getu4(s[i:]): the value of the escape \uXXXX at position i of s, -1 when
\* there is none.
Getu4(s, i) ==
  IF i + 5 > Len(s) \/ s[i] # "\\" \/ s[i + 1] # "u" THEN -1
  ELSE IF \E k \in 2..5 : HexValue(s[i + k]) < 0 THEN -1
  ELSE HexValue(s[i + 2]) * 4096 + HexValue(s[i + 3]) * 256
       + HexValue(s[i + 4]) * 16 + HexValue(s[i + 5])

\* The first position from i on that holds a character of StringStops, 0
\* when there is none.
FirstStop(s, i) ==
  IF \E j \in i..Len(s) : s[j] \in StringStops
  THEN CHOOSE j \in i..Len(s) :
         /\ s[j] \in StringStops
         /\ \A k \in i..(j - 1) : s[k] \notin StringStops
  ELSE 0

RECURSIVE ScanString(_, _, _)
\* The escape \uXXXX at position stop, of value rr, r2 being the value of
\* the escape that follows it: a surrogate pair is one code point, a lone
\* surrogate is U+FFFD.
ScanUnicode(s, stop, run, rr, r2) ==
  IF rr < 0 THEN Fail
  ELSE IF rr >= 55296 /\ rr < 57344 /\ Utf16DecodeRune(rr, r2) # 65533
  THEN ScanString(s, stop + 12, run \o EncodeRune(Utf16DecodeRune(rr, r2)))
  ELSE ScanString(s, stop + 6, run \o EncodeRune(rr))

\* The escape that the backslash at position stop begins.
ScanEscape(s, stop, run, c) ==
  IF c \in {"\"", "\\", "/"} THEN ScanString(s, stop + 2, Append(run, c))
  ELSE IF c = "b" THEN ScanString(s, stop + 2, Append(run, ByteToChar(8)))
  ELSE IF c = "f" THEN ScanString(s, stop + 2, Append(run, ByteToChar(12)))
  ELSE IF c = "n" THEN ScanString(s, stop + 2, Append(run, "\n"))
  ELSE IF c = "r" THEN ScanString(s, stop + 2, Append(run, "\r"))
  ELSE IF c = "t" THEN ScanString(s, stop + 2, Append(run, "\t"))
  ELSE IF c = "u"
       THEN ScanUnicode(s, stop, run, Getu4(s, stop), Getu4(s, stop + 6))
  ELSE Fail

\* The byte from 0x80 on at position stop, n being the size of the
\* encoding it starts: the encoding is copied, a byte that starts none is
\* replaced by U+FFFD.
ScanBytes(s, stop, run, n) ==
  IF n = 0 THEN ScanString(s, stop + 1, run \o ReplacementText)
  ELSE ScanString(s, stop + n, run \o SubSeq(s, stop, stop + n - 1))

\* The character at position stop, which ends a run of plain characters;
\* run is the text decoded up to it.
ScanStop(s, stop, run) ==
  IF s[stop] = "\"" THEN Got(JStr(run), stop + 1)
  ELSE IF s[stop] = "\\"
       THEN IF stop + 1 > Len(s) THEN Fail
            ELSE ScanEscape(s, stop, run, s[stop + 1])
  ELSE IF s[stop] \in HighChars
       THEN ScanBytes(s, stop, run, Utf8Size(s, stop))
  ELSE Fail

\* The run of plain characters from position i up to stop.
ScanRun(s, i, stop, acc) ==
  IF stop = 0 THEN Fail
  ELSE ScanStop(s, stop, acc \o SubSeq(s, i, stop - 1))

\* The JSON string whose opening quote precedes position i; acc is the text
\* decoded so far.  The escapes \" \\ \/ \b \f \n \r \t and \uXXXX are
\* decoded (a surrogate pair to one code point, a lone surrogate to U+FFFD);
\* a byte from 0x80 on that starts no well-formed UTF-8 encoding is replaced
\* by U+FFFD; a control character is an error.  A run of plain characters
\* is taken in one step.
ScanString(s, i, acc) == ScanRun(s, i, FirstStop(s, i), acc)

\* The literal word w at position i.
ScanLiteral(s, i, w, v) ==
  IF i + Len(w) - 1 <= Len(s) /\ SubSeq(s, i, i + Len(w) - 1) = w
  THEN Got(v, i + Len(w)) ELSE Fail

RECURSIVE ScanValue(_, _), ScanMembers(_, _, _), ScanElements(_, _, _)
\* The JSON value that starts at or after position i.
ScanValue(s, i) ==
  LET j == SkipWs(s, i) IN
  IF j > Len(s) THEN Fail
  ELSE IF s[j] = "{"
       THEN LET k == SkipWs(s, j + 1) IN
            IF k <= Len(s) /\ s[k] = "}" THEN Got(JObj(EmptyMap), k + 1)
            ELSE ScanMembers(s, k, EmptyMap)
  ELSE IF s[j] = "["
       THEN LET k == SkipWs(s, j + 1) IN
            IF k <= Len(s) /\ s[k] = "]" THEN Got(JArr(<<>>), k + 1)
            ELSE ScanElements(s, k, <<>>)
  ELSE IF s[j] = "\"" THEN ScanString(s, j + 1, <<>>)
  ELSE IF s[j] = "t" THEN ScanLiteral(s, j, <<"t", "r", "u", "e">>, JBool(TRUE))
  ELSE IF s[j] = "f"
       THEN ScanLiteral(s, j, <<"f", "a", "l", "s", "e">>, JBool(FALSE))
  ELSE IF s[j] = "n" THEN ScanLiteral(s, j, <<"n", "u", "l", "l">>, JNull)
  ELSE IF s[j] = "-" \/ s[j] \in Digits THEN ScanNumber(s, j)
  ELSE Fail

\* The members of an object from position i (a key is expected) on.
ScanMembers(s, i, acc) ==
  LET j == SkipWs(s, i) IN
  IF j > Len(s) \/ s[j] # "\"" THEN Fail
  ELSE LET key == ScanString(s, j + 1, <<>>) IN
       IF ~key.ok THEN Fail
       ELSE LET c == SkipWs(s, key.i) IN
            IF c > Len(s) \/ s[c] # ":" THEN Fail
            ELSE LET val == ScanValue(s, c + 1) IN
                 IF ~val.ok THEN Fail
                 ELSE LET e == SkipWs(s, val.i)
                          acc2 == MapPut(acc, key.v.s, val.v)
                      IN  IF e > Len(s) THEN Fail
                          ELSE IF s[e] = "}" THEN Got(JObj(acc2), e + 1)
                          ELSE IF s[e] = "," THEN ScanMembers(s, e + 1, acc2)
                          ELSE Fail

\* The elements of an array from position i on.
ScanElements(s, i, acc) ==
  LET val == ScanValue(s, i) IN
  IF ~val.ok THEN Fail
  ELSE LET e == SkipWs(s, val.i)
           acc2 == Append(acc, val.v)
       IN  IF e > Len(s) THEN Fail
           ELSE IF s[e] = "]" THEN Got(JArr(acc2), e + 1)
           ELSE IF s[e] = "," THEN ScanElements(s, e + 1, acc2)
           ELSE Fail

\* The store with every JSON value taken: what is no object leaves the map
\* as it was.
StoreInMapAnyValue(r, data) ==
  IF ~r.ok \/ SkipWs(data, r.i) <= Len(data) THEN [err |-> TRUE, m |-> EmptyMap]
  ELSE IF r.v.t = "obj" THEN [err |-> FALSE, m |-> r.v.o]
  ELSE [err |-> FALSE, m |-> EmptyMap]

\* What json.Unmarshal stores in a map[string]interface{} when the scan of
\* the text data gave r: the whole text must be one JSON value; an object
\* fills the map, null leaves it nil (a nil map reads as the empty map),
\* every other value is an error.
StoreInMap(r, data) ==
  IF ~r.ok \/ SkipWs(data, r.i) <= Len(data) THEN [err |-> TRUE, m |-> EmptyMap]
  ELSE IF r.v.t = "obj" THEN [err |-> FALSE, m |-> r.v.o]
  ELSE IF r.v.t = "null" THEN [err |-> FALSE, m |-> EmptyMap]
  ELSE [err |-> TRUE, m |-> EmptyMap]

\* json.Unmarshal(data, &m) with m a map[string]interface{}.
JsonUnmarshalMap(data) == StoreInMap(ScanValue(data, 1), data)

(***************************************************************************)
(* base64.StdEncoding                                                      *)
(***************************************************************************)

B64Alphabet ==
  << "A", "B", "C", "D", "E", "F", "G", "H", "I", "J", "K", "L", "M", "N",
     "O", "P", "Q", "R", "S", "T", "U", "V", "W", "X", "Y", "Z", "a", "b",
     "c", "d", "e", "f", "g", "h", "i", "j", "k", "l", "m", "n", "o", "p",
     "q", "r", "s", "t", "u", "v", "w", "x", "y", "z", "0", "1", "2", "3",
     "4", "5", "6", "7", "8", "9", "+", "/" >>

B64Chars == {B64Alphabet[i] : i \in 1..64}

\* The 6-bit value of an alphabet character.
B64Value(c) == (CHOOSE i \in 1..64 : B64Alphabet[i] = c) - 1

\* The text without the characters of the set drop.
Strip(s, drop) == SelectSeq(s, LAMBDA c : c \notin drop)

\* The characters of the bytes that a group of four alphabet values, of
\* which the first n carry data, stands for.
B64Group(a, b, c, d, n) ==
  LET v == a * 262144 + b * 4096 + c * 64 + d
      b1 == ByteToChar((v \div 65536) % 256)
      b2 == ByteToChar((v \div 256) % 256)
      b3 == ByteToChar(v % 256)
  IN  IF n = 4 THEN <<b1, b2, b3>>
      ELSE IF n = 3 THEN <<b1, b2>>
      ELSE <<b1>>

\* The number of characters of the group of four at position i of t that
\* carry data (4, or 3 or 2 in a padded last group); 0 when the group is
\* not legal there.
B64GroupSize(t, i) ==
  IF t[i] \notin B64Chars \/ t[i + 1] \notin B64Chars THEN 0
  ELSE IF t[i + 2] \in B64Chars /\ t[i + 3] \in B64Chars THEN 4
  ELSE IF i + 3 = Len(t) /\ t[i + 2] \in B64Chars /\ t[i + 3] = "=" THEN 3
  ELSE IF i + 3 = Len(t) /\ t[i + 2] = "=" /\ t[i + 3] = "=" THEN 2
  ELSE 0

\* The text of the group of four at position i of t.
B64GroupText(t, i) ==
  B64Group(B64Value(t[i]), B64Value(t[i + 1]),
           IF B64GroupSize(t, i) >= 3 THEN B64Value(t[i + 2]) ELSE 0,
           IF B64GroupSize(t, i) >= 4 THEN B64Value(t[i + 3]) ELSE 0,
           B64GroupSize(t, i))

RECURSIVE Concat(_, _, _)
\* The texts pieces[lo], ..., pieces[hi] joined.
Concat(pieces, lo, hi) ==
  IF lo > hi THEN <<>>
  ELSE IF lo = hi THEN pieces[lo]
  ELSE Concat(pieces, lo, (lo + hi) \div 2)
       \o Concat(pieces, ((lo + hi) \div 2) + 1, hi)

\* Decodes the text t, which is made of whole groups of four.
B64DecodeGroups(t) ==
  IF \E g \in 1..(Len(t) \div 4) : B64GroupSize(t, 4 * g - 3) = 0
  THEN [err |-> TRUE, text |-> <<>>]
  ELSE [err |-> FALSE,
        text |-> Concat([g \in 1..(Len(t) \div 4) |-> B64GroupText(t, 4 * g - 3)],
                        1, Len(t) \div 4)]

\* base64.StdEncoding.DecodeString(s): carriage returns and line feeds are
\* ignored, the rest must be whole padded groups of four.
Base64Decode(s) ==
  LET t == Strip(s, {"\r", "\n"}) IN
  IF Len(t) % 4 # 0 THEN [err |-> TRUE, text |-> <<>>]
  ELSE B64DecodeGroups(t)

(***************************************************************************)
(* encoding/json and base64.StdEncoding, encoding                          *)
(***************************************************************************)

RECURSIVE TextLess(_, _, _)
\* Go's string order (bytewise) from position i on: a < b.
TextLess(a, b, i) ==
  IF i > Len(b) THEN FALSE
  ELSE IF i > Len(a) THEN TRUE
  ELSE IF a[i] = b[i] THEN TextLess(a, b, i + 1)
  ELSE CharCode(a[i]) < CharCode(b[i])

RECURSIVE SortedKeys(_)
\* The keys of the set keys in increasing order: encoding/json writes the
\* entries of a map sorted by key.
SortedKeys(keys) ==
  IF keys = {} THEN <<>>
  ELSE LET least == CHOOSE k \in keys :
                      \A other \in keys \ {k} : TextLess(k, other, 1)
       IN  <<least>> \o SortedKeys(keys \ {least})

RECURSIVE IntText(_)
\* strconv.FormatInt(n, 10) for n >= 0
IntText(n) ==
  IF n < 10 THEN << Ascii[n + 17] >>
  ELSE Append(IntText(n \div 10), Ascii[(n % 10) + 17])

\* A byte below 0x80 as encoding/json writes it inside a string (HTML
\* escaping is on): the quote and the backslash behind a backslash, \b \f
\* \n \r \t, every other control character and <, > and & as \u00XX.
EscapeChar(c) ==
  IF c \in {"\"", "\\"} THEN <<"\\", c>>
  ELSE IF c = ByteToChar(8) THEN <<"\\", "b">>
  ELSE IF c = ByteToChar(12) THEN <<"\\", "f">>
  ELSE IF c = "\n" THEN <<"\\", "n">>
  ELSE IF c = "\r" THEN <<"\\", "r">>
  ELSE IF c = "\t" THEN <<"\\", "t">>
  ELSE IF c \in ControlChars \cup {"<", ">", "&"}
       THEN <<"\\", "u", "0", "0", HexDigits[(CharCode(c) \div 16) + 1],
              HexDigits[(CharCode(c) % 16) + 1]>>
  ELSE <<c>>

\* The byte at position i of s belongs to the well-formed encoding that
\* starts up to three bytes before it.
Utf8Continues(s, i) ==
  \E k \in 1..3 : i - k >= 1 /\ s[i - k] \in HighChars /\ Utf8Size(s, i - k) > k

\* What encoding/json writes for position i of s: a byte that starts no
\* well-formed encoding becomes \ufffd, U+2028 and U+2029 become escapes,
\* every other encoding is copied.
EscapeAt(s, i) ==
  IF s[i] \notin HighChars THEN EscapeChar(s[i])
  ELSE IF Utf8Continues(s, i) THEN <<>>
  ELSE IF Utf8Size(s, i) = 0 THEN <<"\\", "u", "f", "f", "f", "d">>
  ELSE IF Utf8Size(s, i) = 3 /\ SubSeq(s, i, i + 2) = BytesText(<<226, 128, 168>>)
       THEN <<"\\", "u", "2", "0", "2", "8">>
  ELSE IF Utf8Size(s, i) = 3 /\ SubSeq(s, i, i + 2) = BytesText(<<226, 128, 169>>)
       THEN <<"\\", "u", "2", "0", "2", "9">>
  ELSE SubSeq(s, i, i + Utf8Size(s, i) - 1)

\* The characters of s as encoding/json writes them inside a string.
Escape(s) == Concat([i \in 1..Len(s) |-> EscapeAt(s, i)], 1, Len(s))

\* A JSON string literal.
Quote(s) == <<"\"">> \o Escape(s) \o <<"\"">>

RECURSIVE JsonMarshal(_), MarshalElements(_, _), MarshalMembers(_, _, _)
\* json.Marshal(v): the compact text of the value v.
JsonMarshal(v) ==
  IF v.t = "null" THEN <<"n", "u", "l", "l">>
  ELSE IF v.t = "bool"
       THEN (IF v.b THEN <<"t", "r", "u", "e">> ELSE <<"f", "a", "l", "s", "e">>)
  ELSE IF v.t = "num" THEN v.l
  ELSE IF v.t = "str" THEN Quote(v.s)
  ELSE IF v.t = "arr" THEN <<"[">> \o MarshalElements(v.a, 1) \o <<"]">>
  ELSE <<"{">> \o MarshalMembers(v.o, SortedKeys(DOMAIN v.o), 1) \o <<"}">>

\* The elements of the array a from position i on, separated by commas.
MarshalElements(a, i) ==
  IF i > Len(a) THEN <<>>
  ELSE (IF i > 1 THEN <<",">> ELSE <<>>) \o JsonMarshal(a[i])
       \o MarshalElements(a, i + 1)

\* The members of the object o for the keys from position i on.
MarshalMembers(o, keys, i) ==
  IF i > Len(keys) THEN <<>>
  ELSE (IF i > 1 THEN <<",">> ELSE <<>>) \o Quote(keys[i]) \o <<":">>
       \o JsonMarshal(o[keys[i]]) \o MarshalMembers(o, keys, i + 1)

\* The four alphabet characters of the 24 bits v, of which the first n are
\* written and the rest is padding.
B64Quad(v, n) ==
  << B64Alphabet[(v \div 262144) + 1],
     B64Alphabet[((v \div 4096) % 64) + 1],
     IF n >= 3 THEN B64Alphabet[((v \div 64) % 64) + 1] ELSE "=",
     IF n >= 4 THEN B64Alphabet[(v % 64) + 1] ELSE "=" >>

\* The alphabet characters of the group of up to three bytes of s that
\* starts at position i.
B64EncodeGroup(s, i) ==
  IF i + 2 <= Len(s)
  THEN B64Quad(CharCode(s[i]) * 65536 + CharCode(s[i + 1]) * 256
                 + CharCode(s[i + 2]), 4)
  ELSE IF i + 1 = Len(s)
  THEN B64Quad(CharCode(s[i]) * 65536 + CharCode(s[i + 1]) * 256, 3)
  ELSE B64Quad(CharCode(s[i]) * 65536, 2)

\* base64.StdEncoding.EncodeToString(src)
Base64Encode(src) ==
  Concat([g \in 1..((Len(src) + 2) \div 3) |-> B64EncodeGroup(src, 3 * g - 2)],
         1, (Len(src) + 2) \div 3)

(***************************************************************************)
(* protocol.Handler: decoding, validation and identity extraction          *)
(***************************************************************************)

\* "...": the text of a Go string literal used by the handler.
StrBody == <<"b", "o", "d", "y">>

StrOk == <<"o", "k">>

StrPong == <<"p", "o", "n", "g">>

StrAt == <<"@">>

StrHost == <<"h", "o", "s", "t">>

StrData == <<"d", "a", "t", "a">>

\* fields := []string{"hostname", "worker", "nodename", "node", "name"}
IdentityFields ==
  << <<"h", "o", "s", "t", "n", "a", "m", "e">>,
     <<"w", "o", "r", "k", "e", "r">>,
     <<"n", "o", "d", "e", "n", "a", "m", "e">>,
     <<"n", "o", "d", "e">>,
     <<"n", "a", "m", "e">> >>

\* ParseWorkerResponse once base64.StdEncoding.DecodeString(bodyStr) gave
\* bodyBytes: the document they hold.
ParseBodyBytes(bodyBytes) ==
  IF bodyBytes.err THEN [err |-> TRUE, m |-> EmptyMap]
  ELSE JsonUnmarshalMap(bodyBytes.text)

\* ParseWorkerResponse without the unwrapping of the body: the outer document
\* whatever it holds.
ParseEnvelopeNoUnwrap(envelope) ==
  IF envelope.err THEN [err |-> TRUE, m |-> EmptyMap]
  ELSE [err |-> FALSE, m |-> envelope.m]

\* ParseWorkerResponse once json.Unmarshal(data, &envelope) gave envelope:
\* the document inside a string-valued body, else the envelope itself.
ParseEnvelope(envelope) ==
  IF envelope.err THEN [err |-> TRUE, m |-> EmptyMap]
  ELSE IF StrBody \in DOMAIN envelope.m /\ envelope.m[StrBody].t = "str"
       THEN ParseBodyBytes(Base64Decode(envelope.m[StrBody].s))
       ELSE [err |-> FALSE, m |-> envelope.m]

\* Handler.ParseWorkerResponse(data): the outer document, or the document
\* inside a string-valued body, base64-decoded.
ParseWorkerResponse(data) == ParseEnvelope(JsonUnmarshalMap(data))

\* The value of the first of the identity fields, from position i on, that
\* the map m holds as a non-empty string; the empty text if there is none.
RECURSIVE FirstIdentityField(_, _)
FirstIdentityField(m, i) ==
  IF i > Len(IdentityFields) THEN <<>>
  ELSE IF IdentityFields[i] \in DOMAIN m
          /\ m[IdentityFields[i]].t = "str"
          /\ m[IdentityFields[i]].s # <<>>
       THEN m[IdentityFields[i]].s
       ELSE FirstIdentityField(m, i + 1)

\* Handler.ExtractWorkerName(response): the SET of the strings the call can
\* return.  Go ranges over a map in an unspecified order, so the first and
\* the last loop can return the entry of any qualifying key.
ExtractWorkerName(response) ==
  LET workerKeys == {k \in DOMAIN response :
                       /\ Contains(k, StrAt)
                       /\ response[k].t = "obj"
                       /\ StrOk \in DOMAIN response[k].o}
      inData == IF StrData \in DOMAIN response /\ response[StrData].t = "obj"
                THEN FirstIdentityField(response[StrData].o, 1)
                ELSE <<>>
      topLevel == FirstIdentityField(response, 1)
      lastResort == {response[k].s : k \in
                       {x \in DOMAIN response :
                          /\ response[x].t = "str"
                          /\ (Contains(response[x].s, StrAt)
                              \/ Contains(x, StrHost))}}
  IN  IF workerKeys # {} THEN workerKeys
      ELSE IF inData # <<>> THEN {inData}
      ELSE IF topLevel # <<>> THEN {topLevel}
      ELSE IF lastResort # {} THEN lastResort
      ELSE {<<>>}

\* Handler.ValidateResponse(response): the SET of the booleans the call can
\* return (one value unless ExtractWorkerName has several results).
ValidateResponse(response) ==
  IF \E k \in DOMAIN response :
       /\ Contains(k, StrAt)
       /\ response[k].t = "obj"
       /\ StrOk \in DOMAIN response[k].o
       /\ response[k].o[StrOk].t = "str"
       /\ response[k].o[StrOk].s = StrPong
  THEN {TRUE}
  ELSE {hostname # <<>> : hostname \in ExtractWorkerName(response)}

(***************************************************************************)
(* Bounds and program constants                                            *)
(***************************************************************************)

\* The greatest timeout passed to Ping, in ticks: a pause, a whole pop and
\* a rest too short for another pop.
MaxTimeout == 22

\* The number of payloads written to the reply addresses of one Ping call.
MaxReplies == 2

\* time.Sleep(50 * time.Millisecond): one tick.
SleepTicks == 1

\* brpopTimeout := 1 * time.Second, in ticks.
BrpopTicks == 20

\* The 100ms of the inactivity timer, in ticks.
InactivityTicks == 2

\* time.Now().Unix() counts seconds: twenty ticks each.
TicksPerSecond == 20

MessageFormatRaw == 0

MessageFormatEnveloped == 1

\* The timeouts passed to Ping: shorter than the pause and the inactivity
\* timer allow a pop, just below and at the granularity of a pop, and
\* beyond it.
Timeouts ==
  {SleepTicks, InactivityTicks + 1, BrpopTicks, BrpopTicks + SleepTicks,
   MaxTimeout}

(***************************************************************************)
(* The payloads of the model                                               *)
(***************************************************************************)

\* A pong of worker w1@h in the raw form:
\*   {"w1@h":{"ok":"pong"}}
PongW1 ==
  << "{", "\"", "w", "1", "@", "h", "\"", ":", "{", "\"", "o", "k", "\"",
     ":", "\"", "p", "o", "n", "g", "\"", "}", "}" >>

\* A pong of worker w2@h, {"w2@h":{"ok":"pong"}}, base64-encoded in an envelope:
\*   {"body":"eyJ3MkBoIjp7Im9rIjoicG9uZyJ9fQ=="}
EnvelopedPongW2 ==
  << "{", "\"", "b", "o", "d", "y", "\"", ":", "\"", "e", "y", "J", "3",
     "M", "k", "B", "o", "I", "j", "p", "7", "I", "m", "9", "r", "I", "j",
     "o", "i", "c", "G", "9", "u", "Z", "y", "J", "9", "f", "Q", "=", "=",
     "\"", "}" >>

\* Worker w1@h again, named by the hostname field:
\*   {"hostname":"w1@h"}
HostnameW1 ==
  << "{", "\"", "h", "o", "s", "t", "n", "a", "m", "e", "\"", ":", "\"",
     "w", "1", "@", "h", "\"", "}" >>

\* Truncated JSON:
\*   {"w1@h":{"ok":
Truncated ==
  << "{", "\"", "w", "1", "@", "h", "\"", ":", "{", "\"", "o", "k", "\"",
     ":" >>

\* An envelope whose body is no base64 text:
\*   {"body":"!!!!"}
BadBase64 ==
  << "{", "\"", "b", "o", "d", "y", "\"", ":", "\"", "!", "!", "!", "!",
     "\"", "}" >>

\* An envelope whose body decodes to the text nope, which is no JSON:
\*   {"body":"bm9wZQ=="}
BadInner ==
  << "{", "\"", "b", "o", "d", "y", "\"", ":", "\"", "b", "m", "9", "w",
     "Z", "Q", "=", "=", "\"", "}" >>

\* A document without worker evidence:
\*   {"status":"ok"}
NoEvidence ==
  << "{", "\"", "s", "t", "a", "t", "u", "s", "\"", ":", "\"", "o", "k",
     "\"", "}" >>

\* A document whose last-resort scan finds the empty text or w2@h, depending on the order in which the map is ranged over:
\*   {"host":"","k":"w2@h"}
TwoOrders ==
  << "{", "\"", "h", "o", "s", "t", "\"", ":", "\"", "\"", ",", "\"", "k",
     "\"", ":", "\"", "w", "2", "@", "h", "\"", "}" >>

\* The raw payloads that workers (or anything else writing to a reply
\* address) send in the model.
Payloads ==
  << PongW1, EnvelopedPongW2, HostnameW1, Truncated,
     BadBase64, BadInner, NoEvidence, TwoOrders >>

PayloadIds == 1..Len(Payloads)

\* What ParseWorkerResponse makes of each payload.
Decoded == [i \in PayloadIds |-> ParseWorkerResponse(Payloads[i])]

(***************************************************************************)
(* State                                                                   *)
(***************************************************************************)

VARIABLES
  transport,      \* "redis" or "amqp": the Broker implementation in use
  timeout,        \* the timeout argument of Ping, in ticks
  asyncTimerChan, \* the build keeps a fired timer value in Timer.C over Reset
  now,            \* the clock, in ticks
  brokerUp,       \* the Redis server can be reached
  ctxDone,        \* the context passed to Ping is cancelled
  rClient,        \* RedisBroker.client: "nil", "open" or "closed"
  published,      \* reply tokens of the pings published to the workers
  bindingSet,     \* the members of _kombu.binding.reply.celery.pidbox
  lists,          \* the Redis lists that exist: key |-> payload ids, oldest first
  aConnection,    \* AMQPBroker.connection: "nil", "open", "closed", or
                  \* "unopened" (returned by a failed handshake, not closed)
  aChannel,       \* AMQPBroker.channel: "nil", "open" or "closed"
  lifecyclePc,    \* the position of the AMQPBroker.Connect or Close in
                  \* progress ("idle": none)
  queues,         \* the reply queues that exist at the AMQP broker
  queueBindings,  \* the queues bound to reply.celery.pidbox by their token
  consumers,      \* the queues on which a consumer is subscribed
  msgs,           \* the delivery stream of the call: payload ids, oldest first
  msgsClosed,     \* the delivery stream is closed
  pc,             \* the position of the Ping call
  replyTo,        \* the reply token of the call (0: none)
  deadline,       \* the tick of the overall deadline
  responses,      \* the result map: worker name |-> PingResponse
  brpopUntil,     \* the tick at which the pending BRPOP times out
  timerAt,        \* the tick at which responseTimeout fires (-1: not armed)
  timerC,         \* a value waits in responseTimeout.C
  ret,            \* what the last operation returned
  startedAt,      \* the tick at which Ping was called (-1: not yet)
  sent,           \* the number of payloads written for this call
  written,        \* worker name |-> its upserts in this call: the seconds of
                  \* the first and the last one (first, sec), their number (n)
  lastStep,       \* the last thing the collection loop did
  sinceMsg,       \* ticks since the last delivery was received, up to 100ms
  concCalls,      \* two Ping calls in flight at once: call |-> its position,
                  \* token, ping message, result map and what it used
  concBroker,     \* what the broker holds for them: the pings published, the
                  \* bindings, the reply queues with their payloads (each
                  \* with the token it was addressed to), the consumers
  probe,          \* the Health calls made outside of Connect: their number
                  \* (n), the error of the last one (err) and whether its
                  \* context was cancelled
  codecIn,        \* the input the functions of the handler are applied to
  codecOut,       \* what the applications returned, in order
  environ,        \* the environment of the process: variable |-> text
  flags,          \* the variables that cobra fills from the command line
  cfg,            \* the configuration (package variable cfg of cmd)
  initPc          \* the position of initConfig

vars ==
  << transport, timeout, asyncTimerChan, now, brokerUp, ctxDone, rClient,
     published, bindingSet, lists, aConnection, aChannel, lifecyclePc, queues,
     queueBindings, consumers, msgs, msgsClosed, pc, replyTo,
     deadline, responses, brpopUntil, timerAt, timerC, ret, startedAt, sent,
     written, lastStep, sinceMsg, concCalls, concBroker, probe, codecIn,
     codecOut, environ, flags, cfg, initPc >>

redisVars == << rClient, published, bindingSet, lists, brpopUntil >>

amqpVars ==
  << aConnection, aChannel, queues, queueBindings, consumers, msgs,
     msgsClosed, timerAt, timerC >>

\* The variables of one Ping call.
callVars ==
  << pc, replyTo, deadline, responses, startedAt, sent, written, lastStep,
     sinceMsg >>

\* The arguments of a run, and what belongs to the runs of other kinds but
\* the broker of the calls that are made at once.
runVars ==
  << transport, timeout, asyncTimerChan, concCalls, probe, codecIn, codecOut,
     environ, flags, cfg, initPc >>

\* The arguments of a run, and what belongs to the runs of other kinds.
argVars == << runVars, concBroker >>

\* What no step of a single Ping call changes: the arguments, the calls
\* that are made at once, and the position of a Connect or Close.
constVars == << argVars, lifecyclePc >>

\* The configuration and what it is made from.
configVars == << environ, flags, cfg, initPc >>

\* The brokers, the clock and the single Ping call.
brokerVars ==
  << transport, timeout, asyncTimerChan, now, brokerUp, ctxDone, redisVars,
     amqpVars, lifecyclePc, callVars, ret >>

\* What an operation returns: the map (nilMap: the nil map) and the error.
Return(op, nilMap, m, err) == [op |-> op, nilMap |-> nilMap, m |-> m, err |-> err]

NoReturn == Return("none", TRUE, EmptyMap, "nil")

\* No Health call has been made.
NoProbe == [n |-> 0, err |-> "none", cancelled |-> FALSE]

\* The two calls of the concurrent runs.
Calls == {"A", "B"}

\* A call that has not begun: no token, no ping message, nothing used.
IdleCall ==
  [pc |-> "idle", tok |-> 0, ping |-> JNull, resp |-> EmptyMap, from |-> {},
   keys |-> {}, bound |-> {}, declared |-> {}, pubKey |-> {}]

\* A broker that holds nothing of any call.  The field own holds the names
\* of the queues that were declared over the connection of the channel in
\* a.channel: the reply queues are exclusive, and the broker lets no other
\* connection use them.
IdleBroker ==
  [pings |-> {}, bindings |-> {}, q |-> EmptyMap, consumers |-> {}, sent |-> 0,
   own |-> {}]

\* The broker b of the calls made at once without the queues of the set
\* gone, their bindings and their consumers.
WithoutQueues(b, gone) ==
  [b EXCEPT !.q = [k \in (DOMAIN @) \ gone |-> @[k]],
            !.bindings = {x \in @ : x[2] \notin gone},
            !.consumers = {x \in @ : x[2] \notin gone},
            !.own = @ \ gone]

\* That broker after the channel in a.channel was closed: its consumers are
\* cancelled, and a queue that had one is deleted (auto-delete).
ChannelClosedAt(b) ==
  WithoutQueues(b, {x[2] : x \in {y \in b.consumers : y[2] \in b.own}})

\* That broker after the connection of that channel was closed: the queues
\* declared over it are deleted (exclusive).
ConnectionClosedAt(b) == WithoutQueues(b, b.own)

\* No function of the handler is applied on its own.
NoInput ==
  [op |-> "none", token |-> 0, destinations |-> <<>>, format |-> 0, doc |-> 0]

\* The brokers after NewRedisBroker and NewAMQPBroker, before Connect.
InitBroker ==
  /\ transport \in {"redis", "amqp"}
  /\ timeout \in Timeouts
  /\ asyncTimerChan \in BOOLEAN
  /\ (transport = "redis" => asyncTimerChan = FALSE)
  /\ now = 0
  /\ brokerUp = TRUE
  /\ ctxDone = FALSE
  /\ rClient = "nil"
  /\ probe = NoProbe
  /\ published = {}
  /\ bindingSet = {}
  /\ lists = EmptyMap
  /\ aConnection = "nil"
  /\ aChannel = "nil"
  /\ lifecyclePc = "idle"
  /\ queues = {}
  /\ queueBindings = {}
  /\ consumers = {}
  /\ msgs = <<>>
  /\ msgsClosed = FALSE
  /\ pc = "idle"
  /\ replyTo = 0
  /\ deadline = 0
  /\ responses = EmptyMap
  /\ brpopUntil = 0
  /\ timerAt = -1
  /\ timerC = FALSE
  /\ ret = NoReturn
  /\ startedAt = -1
  /\ sent = 0
  /\ written = EmptyMap
  /\ lastStep = "none"
  /\ sinceMsg = 0
  /\ concCalls = [c \in Calls |-> IdleCall]
  /\ concBroker = IdleBroker

\* The variables of the environment that the configuration reads.
EnvNames ==
  {"BROKER_URL", "BROKER_USERNAME", "BROKER_PASSWORD", "BROKER_DB",
   "BROKER_TIMEOUT", "OUTPUT_FORMAT", "VERBOSE"}

\* No variable of the environment is set: os.Getenv gives "" for each.
NoEnv == [k \in EnvNames |-> <<>>]

\* The variables of the flags as cobra leaves them when no flag is given.
NoFlags ==
  [brokerURL |-> <<>>, timeout |-> Milliseconds(0), format |-> <<>>,
   verbose |-> FALSE, database |-> GoInt(0), username |-> <<>>,
   password |-> <<>>, destination |-> <<>>]

\* cfg before initConfig ran.
NilConfig == [nil |-> TRUE]

\* initConfig did not run, in an empty environment and without flags.
NotConfigured ==
  /\ environ = NoEnv
  /\ flags = NoFlags
  /\ cfg = NilConfig
  /\ initPc = "start"

Init ==
  /\ InitBroker
  /\ codecIn = NoInput
  /\ codecOut = <<>>
  /\ NotConfigured

(***************************************************************************)
(* protocol.Handler: the ping message and the reply token                  *)
(***************************************************************************)

\* The reply tokens given out so far, to the call of a run with one call
\* and to the concurrent calls.
TokensInUse == ({replyTo} \cup {concCalls[c].tok : c \in Calls}) \ {0}

\* A token generator that gives every call the same token.
CreateReplyQueueFixed(used) == 1

\* Handler.CreateReplyQueue(): uuid.New().String(), a token that no earlier
\* call has; used holds the tokens given out so far.
CreateReplyQueue(used) ==
  CHOOSE t \in 1..(Cardinality(used) + 1) : t \notin used

\* A CreatePingMessage that writes the destinations as a list even when
\* there are none.
CreatePingMessageAlwaysList(token, destinations, format) ==
  LET controlMessage ==
        [method |-> "ping", arguments |-> EmptyMap,
         destination |-> JArr(destinations),
         reply_to |-> [exchange |-> "reply.celery.pidbox", routing_key |-> token]]
  IN  IF format = MessageFormatRaw
      THEN [err |-> FALSE, format |-> "raw", body |-> controlMessage]
      ELSE IF format = MessageFormatEnveloped
      THEN [err |-> FALSE, format |-> "enveloped", body |-> controlMessage]
      ELSE [err |-> TRUE, format |-> "none", body |-> controlMessage]

\* Handler.CreatePingMessage(replyTo, destinations, format): the control
\* message, with the reply routing key replyTo, in the given format.
CreatePingMessage(token, destinations, format) ==
  LET destination == IF Len(destinations) > 0 THEN JArr(destinations) ELSE JNull
      controlMessage ==
        [method |-> "ping", arguments |-> EmptyMap, destination |-> destination,
         reply_to |-> [exchange |-> "reply.celery.pidbox", routing_key |-> token]]
  IN  IF format = MessageFormatRaw
      THEN [err |-> FALSE, format |-> "raw", body |-> controlMessage]
      ELSE IF format = MessageFormatEnveloped
      THEN [err |-> FALSE, format |-> "enveloped", body |-> controlMessage]
      ELSE [err |-> TRUE, format |-> "none", body |-> controlMessage]

\* The text of a reply token: the model writes the token n as un (the code
\* writes a UUID).
TokenText(token) == <<"u">> \o IntText(token)

\* The texts of the tickets and delivery tags, which uuid.New() draws at
\* random.
Uuids == { <<"k", "1">>, <<"k", "2">> }

\* The Go string literals of CreatePingMessage, as texts (a - of a literal
\* is a _ in the name of its field).
Lit ==
  [ method |-> <<"m", "e", "t", "h", "o", "d">>,
    arguments |-> <<"a", "r", "g", "u", "m", "e", "n", "t", "s">>,
    destination |-> <<"d", "e", "s", "t", "i", "n", "a", "t", "i", "o",
                        "n">>,
    pattern |-> <<"p", "a", "t", "t", "e", "r", "n">>,
    matcher |-> <<"m", "a", "t", "c", "h", "e", "r">>,
    ticket |-> <<"t", "i", "c", "k", "e", "t">>,
    reply_to |-> <<"r", "e", "p", "l", "y", "_", "t", "o">>,
    exchange |-> <<"e", "x", "c", "h", "a", "n", "g", "e">>,
    routing_key |-> <<"r", "o", "u", "t", "i", "n", "g", "_", "k", "e",
                        "y">>,
    body |-> <<"b", "o", "d", "y">>,
    content_encoding |-> <<"c", "o", "n", "t", "e", "n", "t", "-", "e",
                             "n", "c", "o", "d", "i", "n", "g">>,
    content_type |-> <<"c", "o", "n", "t", "e", "n", "t", "-", "t", "y",
                         "p", "e">>,
    headers |-> <<"h", "e", "a", "d", "e", "r", "s">>,
    clock |-> <<"c", "l", "o", "c", "k">>,
    expires |-> <<"e", "x", "p", "i", "r", "e", "s">>,
    properties |-> <<"p", "r", "o", "p", "e", "r", "t", "i", "e", "s">>,
    delivery_mode |-> <<"d", "e", "l", "i", "v", "e", "r", "y", "_", "m",
                          "o", "d", "e">>,
    delivery_info |-> <<"d", "e", "l", "i", "v", "e", "r", "y", "_", "i",
                          "n", "f", "o">>,
    priority |-> <<"p", "r", "i", "o", "r", "i", "t", "y">>,
    body_encoding |-> <<"b", "o", "d", "y", "_", "e", "n", "c", "o", "d",
                          "i", "n", "g">>,
    delivery_tag |-> <<"d", "e", "l", "i", "v", "e", "r", "y", "_", "t",
                         "a", "g">>,
    ping |-> <<"p", "i", "n", "g">>,
    reply_celery_pidbox |-> <<"r", "e", "p", "l", "y", ".", "c", "e",
                                "l", "e", "r", "y", ".", "p", "i", "d",
                                "b", "o", "x">>,
    celery_pidbox |-> <<"c", "e", "l", "e", "r", "y", ".", "p", "i", "d",
                          "b", "o", "x">>,
    utf_8 |-> <<"u", "t", "f", "-", "8">>,
    application_json |-> <<"a", "p", "p", "l", "i", "c", "a", "t", "i",
                             "o", "n", "/", "j", "s", "o", "n">>,
    base64 |-> <<"b", "a", "s", "e", "6", "4">> ]

\* The text of the words that the model keeps as strings.
WordText ==
  ("ping" :> Lit.ping) @@ ("reply.celery.pidbox" :> Lit.reply_celery_pidbox)

\* controlMessage := map[string]interface{}{...}: the document of the
\* message msg that CreatePingMessage made, with the ticket drawn.
ControlMessage(msg, ticket) ==
  JObj((Lit.method :> JStr(WordText[msg.method]))
       @@ (Lit.arguments :> JObj(msg.arguments))
       @@ (Lit.destination :> msg.destination)
       @@ (Lit.pattern :> JNull)
       @@ (Lit.matcher :> JNull)
       @@ (Lit.ticket :> JStr(ticket))
       @@ (Lit.reply_to :>
             JObj((Lit.exchange :> JStr(WordText[msg.reply_to.exchange]))
                  @@ (Lit.routing_key :>
                        JStr(TokenText(msg.reply_to.routing_key))))))

\* envelope := map[string]interface{}{...} around the base64 text of the
\* control message; expires is the Unix time ten seconds from now.
Envelope(base64Body, expires, deliveryTag) ==
  JObj((Lit.body :> JStr(base64Body))
       @@ (Lit.content_encoding :> JStr(Lit.utf_8))
       @@ (Lit.content_type :> JStr(Lit.application_json))
       @@ (Lit.headers :>
             JObj((Lit.clock :> JNum(IntText(1)))
                  @@ (Lit.expires :> JNum(IntText(expires)))))
       @@ (Lit.properties :>
             JObj((Lit.delivery_mode :> JNum(IntText(2)))
                  @@ (Lit.delivery_info :>
                        JObj((Lit.exchange :> JStr(Lit.celery_pidbox))
                             @@ (Lit.routing_key :> JStr(<<>>))))
                  @@ (Lit.priority :> JNum(IntText(0)))
                  @@ (Lit.body_encoding :> JStr(Lit.base64))
                  @@ (Lit.delivery_tag :> JStr(deliveryTag)))))

\* The bytes CreatePingMessage returns for the message made (made.err: the
\* format is not supported), at the tick tick.
PingData(made, ticket, deliveryTag, tick) ==
  IF made.err THEN [err |-> TRUE, data |-> <<>>]
  ELSE IF made.format = "raw"
  THEN [err |-> FALSE, data |-> JsonMarshal(ControlMessage(made.body, ticket))]
  ELSE [err |-> FALSE,
        data |-> JsonMarshal(
                   Envelope(Base64Encode(
                              JsonMarshal(ControlMessage(made.body, ticket))),
                            (tick \div TicksPerSecond) + 10, deliveryTag))]

\* The destinations arguments of the model: broadcast, or one worker.
Destinations == {<<>>, << JStr(<<"w", "1", "@", "h">>) >>}

(***************************************************************************)
(* broker.PingResponse and the collector step shared by both loops         *)
(***************************************************************************)

\* PingResponse{WorkerName: workerName, Status: "pong", Timestamp: Unix()}
PingResponse(workerName, tick) ==
  [WorkerName |-> workerName, Status |-> StrPong,
   Timestamp |-> tick \div TicksPerSecond]

\* A map write that keeps the entry a worker already has.
UpsertKeepFirst(m, workerName, response) ==
  [w \in (DOMAIN m) \cup {workerName} |->
     IF w \in DOMAIN m THEN m[w] ELSE response]

\* responses[workerName] = response
Upsert(m, workerName, response) ==
  [w \in (DOMAIN m) \cup {workerName} |->
     IF w = workerName THEN response ELSE m[w]]

\* The record of upserts wr after one more upsert of worker w at tick t.
Noted(wr, w, t) ==
  MapPut(wr, w, [first |-> IF w \in DOMAIN wr THEN wr[w].first
                           ELSE t \div TicksPerSecond,
                 sec |-> t \div TicksPerSecond,
                 n |-> IF w \in DOMAIN wr THEN wr[w].n + 1 ELSE 1])

\* The collector step without the test for an empty worker name.
RedisCollectAnyName(m, response, t) ==
  IF response.err THEN {[w |-> <<>>, m |-> m]}
  ELSE UNION {
         IF valid
         THEN {[w |-> workerName,
                m |-> [x \in (DOMAIN m) \cup {workerName} |->
                         IF x = workerName
                         THEN [WorkerName |-> workerName, Status |-> StrPong,
                               Timestamp |-> t \div TicksPerSecond]
                         ELSE m[x]]] :
               workerName \in ExtractWorkerName(response.m)}
         ELSE {[w |-> <<>>, m |-> m]} :
         valid \in ValidateResponse(response.m)}

\* A collector step that writes an entry for every worker name the
\* document yields.
RedisCollectEveryWorker(m, response, t) ==
  IF response.err THEN {[w |-> <<>>, m |-> m]}
  ELSE UNION {
         IF valid
         THEN LET names == ExtractWorkerName(response.m) \ {<<>>} IN
              {[w |-> workerName,
                m |-> [x \in (DOMAIN m) \cup names |->
                         IF x \in names THEN PingResponse(x, t) ELSE m[x]]] :
               workerName \in ExtractWorkerName(response.m)}
         ELSE {[w |-> <<>>, m |-> m]} :
         valid \in ValidateResponse(response.m)}

\* What the code from the decoding of a payload to the upsert can do to the
\* result map m at tick t: the set of outcomes, each the worker name that
\* was written (empty: the payload was skipped) and the resulting map.
RedisCollect(m, response, t) ==
  IF response.err THEN {[w |-> <<>>, m |-> m]}
  ELSE UNION {
         IF valid
         THEN {IF workerName # <<>>
               THEN [w |-> workerName,
                     m |-> Upsert(m, workerName, PingResponse(workerName, t))]
               ELSE [w |-> <<>>, m |-> m] :
               workerName \in ExtractWorkerName(response.m)}
         ELSE {[w |-> <<>>, m |-> m]} :
         valid \in ValidateResponse(response.m)}

\* The outcomes of the Redis loop's processing of payload id.
RedisProcess(m, id, t) == RedisCollect(m, Decoded[id], t)

(***************************************************************************)
(* RedisBroker                                                             *)
(***************************************************************************)

\* baseReplyQueue and its priority variants: the token, the fixed suffix
\* .reply.celery.pidbox and the priority mark (0: none; 3, 6, 9).
ReplyQueues(token) == << <<token, 0>>, <<token, 3>>, <<token, 6>>, <<token, 9>> >>

\* A binding member that names the reply queue of one fixed token.
BindingKeyFixedQueue(token) == <<token, ReplyQueues(1)[1]>>

\* bindingKey := replyTo + "\x06\x16\x06\x16" + baseReplyQueue
BindingKey(token) == <<token, ReplyQueues(token)[1]>>

\* A command sent with the context of the call takes effect: the client is
\* open, the server is reachable, and the context is not cancelled (the
\* client refuses a cancelled context before it writes anything).
RedisOk == rClient = "open" /\ brokerUp /\ ~ctxDone

\* RedisBroker.Health(ctx): the error it returns.
RedisHealth ==
  IF rClient = "nil" THEN "not initialized"
  ELSE IF rClient = "open" /\ brokerUp THEN "nil"
  ELSE "probe failed"

\* RedisBroker.Connect(ctx), for a URL that parses (urlOk) or does not.
RedisConnect ==
  /\ transport = "redis"
  /\ pc = "idle"
  /\ \E urlOk \in BOOLEAN :
       IF ~urlOk
       THEN /\ ret' = Return("Connect", TRUE, EmptyMap, "parse")
            /\ UNCHANGED rClient
       ELSE /\ rClient' = "open"
            /\ ret' = Return("Connect", TRUE, EmptyMap,
                             IF brokerUp THEN "nil" ELSE "probe failed")
  /\ UNCHANGED << constVars, now, brokerUp, ctxDone, published, bindingSet,
                  lists, brpopUntil, amqpVars, callVars >>

\* RedisBroker.Close(): closing a closed client is an error of the client.
RedisClose ==
  /\ transport = "redis"
  /\ pc \in {"idle", "done"}
  /\ IF rClient # "nil"
     THEN /\ ret' = Return("Close", TRUE, EmptyMap,
                           IF rClient = "closed" THEN "closed" ELSE "nil")
          /\ rClient' = "closed"
     ELSE /\ ret' = Return("Close", TRUE, EmptyMap, "nil")
          /\ UNCHANGED rClient
  /\ UNCHANGED << constVars, now, brokerUp, ctxDone, published, bindingSet,
                  lists, brpopUntil, amqpVars, callVars >>

\* The function f without the argument k.
Without(f, k) == [x \in (DOMAIN f) \ {k} |-> f[x]]

\* Ping returns: the call is over.
Returned(nilMap, m, err) ==
  /\ pc' = "done"
  /\ ret' = Return("Ping", nilMap, m, err)

\* A Ping that goes on to publish without the nil check.
RedisPingNoNilCheck ==
  /\ transport = "redis"
  /\ pc = "idle"
  /\ replyTo' = CreateReplyQueue(TokensInUse)
  /\ startedAt' = now
  /\ sent' = 0
  /\ written' = EmptyMap
  /\ lastStep' = "none"
  /\ responses' = EmptyMap
  /\ pc' = "publish"
  /\ UNCHANGED << constVars, now, brokerUp, ctxDone, redisVars, amqpVars,
                  deadline, ret, sinceMsg >>

\* RedisBroker.Ping(ctx, timeout, destinations), up to the first command:
\* the nil check, the reply token and the ping message.
RedisPing ==
  /\ transport = "redis"
  /\ pc = "idle"
  /\ \E destinations \in Destinations :
       IF rClient = "nil"
       THEN /\ Returned(TRUE, EmptyMap, "not initialized")
            /\ UNCHANGED << replyTo, startedAt, sent, written, lastStep,
                            responses >>
       ELSE /\ replyTo' = CreateReplyQueue(TokensInUse)
            /\ startedAt' = now
            /\ sent' = 0
            /\ written' = EmptyMap
            /\ lastStep' = "none"
            /\ responses' = EmptyMap
            /\ IF CreatePingMessage(replyTo', destinations,
                                    MessageFormatEnveloped).err
               THEN Returned(TRUE, EmptyMap, "create ping message")
               ELSE pc' = "publish" /\ UNCHANGED ret
  /\ UNCHANGED << constVars, now, brokerUp, ctxDone, redisVars, amqpVars,
                  deadline,
                  sinceMsg >>

\* r.client.Publish(ctx, "/0.celery.pidbox", pingData)
RedisPublish ==
  /\ pc = "publish"
  /\ IF RedisOk
     THEN /\ published' = published \cup {replyTo}
          /\ pc' = "sadd"
          /\ UNCHANGED ret
     ELSE /\ Returned(TRUE, EmptyMap, "publish")
          /\ UNCHANGED published
  /\ UNCHANGED << constVars, now, brokerUp, ctxDone, rClient, bindingSet,
                  lists, brpopUntil, amqpVars, replyTo, deadline,
                  responses, startedAt, sent, written, lastStep,
                  sinceMsg >>

\* A binding registration whose failure ends the call with an empty map
\* and no error.
RedisSAddErrorSwallowed ==
  /\ pc = "sadd"
  /\ IF RedisOk
     THEN /\ bindingSet' = bindingSet \cup {BindingKey(replyTo)}
          /\ responses' = EmptyMap
          /\ deadline' = now + timeout
          /\ pc' = "sleep"
          /\ UNCHANGED ret
     ELSE /\ Returned(FALSE, EmptyMap, "nil")
          /\ UNCHANGED << bindingSet, responses, deadline >>
  /\ UNCHANGED << constVars, now, brokerUp, ctxDone, rClient, published,
                  lists, brpopUntil, amqpVars, replyTo, startedAt,
                  sent, written, lastStep, sinceMsg >>

\* r.client.SAdd(ctx, "_kombu.binding.reply.celery.pidbox", bindingKey), and
\* on success the empty result map and the deadline.
RedisSAdd ==
  /\ pc = "sadd"
  /\ IF RedisOk
     THEN /\ bindingSet' = bindingSet \cup {BindingKey(replyTo)}
          /\ responses' = EmptyMap
          /\ deadline' = now + timeout
          /\ pc' = "sleep"
          /\ UNCHANGED ret
     ELSE /\ Returned(TRUE, EmptyMap, "register binding")
          /\ UNCHANGED << bindingSet, responses, deadline >>
  /\ UNCHANGED << constVars, now, brokerUp, ctxDone, rClient, published,
                  lists, brpopUntil, amqpVars, replyTo, startedAt,
                  sent, written, lastStep,
                  sinceMsg >>

\* A Ping that goes from the binding to the loop without the pause.
RedisSleepNoPause ==
  /\ pc = "sleep"
  /\ now' = now
  /\ pc' = "loop"
  /\ UNCHANGED << constVars, brokerUp, ctxDone, redisVars, amqpVars,
                  replyTo, deadline, responses, ret, startedAt, sent, written,
                  lastStep,
                  sinceMsg >>

\* time.Sleep(50 * time.Millisecond)
RedisSleep ==
  /\ pc = "sleep"
  /\ now' = now + SleepTicks
  /\ pc' = "loop"
  /\ UNCHANGED << constVars, brokerUp, ctxDone, redisVars, amqpVars,
                  replyTo, deadline, responses, ret, startedAt, sent, written,
                  lastStep,
                  sinceMsg >>

\* A loop head that issues a whole BRPOP whenever the deadline has not
\* passed, however little time remains.
RedisLoopPopsToTheEnd ==
  /\ pc = "loop"
  /\ IF ~(now < deadline)
     THEN pc' = "srem" /\ lastStep' = "deadline" /\ UNCHANGED brpopUntil
     ELSE IF ~RedisOk
     THEN pc' = "srem" /\ lastStep' = "error" /\ UNCHANGED brpopUntil
     ELSE pc' = "brpop" /\ brpopUntil' = now + BrpopTicks /\ UNCHANGED lastStep
  /\ UNCHANGED << constVars, now, brokerUp, ctxDone, rClient, published,
                  bindingSet, lists, amqpVars, replyTo, deadline,
                  responses, ret, startedAt, sent, written, sinceMsg >>

\* time.Until(deadline) is less than d, at the head of the loop.  The
\* clock of the model counts whole ticks; the code reads its clock for the
\* deadline before the pause and again at the head of the loop, after the
\* pause and the statements around it, so that the time that remains is
\* short of deadline - now by a part of a tick: it is less than d ticks
\* exactly when deadline - now is d ticks or less.
RemainingLessThan(d) == deadline - now - 1 < d

\* The head of the loop: the two deadline tests, and the BRPOP being issued.
\* A BRPOP that cannot be sent fails at once and ends the loop.
RedisLoop ==
  /\ pc = "loop"
  /\ LET remaining == deadline - now IN
     IF ~(now < deadline) \/ remaining <= 0
     THEN pc' = "srem" /\ lastStep' = "deadline" /\ UNCHANGED brpopUntil
     ELSE IF RemainingLessThan(BrpopTicks)
     THEN pc' = "srem" /\ lastStep' = "remaining" /\ UNCHANGED brpopUntil
     ELSE IF ~RedisOk
     THEN pc' = "srem" /\ lastStep' = "error" /\ UNCHANGED brpopUntil
     ELSE pc' = "brpop" /\ brpopUntil' = now + BrpopTicks /\ UNCHANGED lastStep
  /\ UNCHANGED << constVars, now, brokerUp, ctxDone, rClient, published,
                  bindingSet, lists, amqpVars, replyTo, deadline,
                  responses, ret, startedAt, sent, written,
                  sinceMsg >>

\* The reply addresses of the token that hold a payload.
NonEmptyQueues(token) ==
  {i \in 1..Len(ReplyQueues(token)) : ReplyQueues(token)[i] \in DOMAIN lists}

\* The address BRPOP pops from: the first of its keys that holds a payload.
PopKey(token) ==
  ReplyQueues(token)[CHOOSE i \in NonEmptyQueues(token) :
                       \A j \in NonEmptyQueues(token) : i <= j]

\* Time passes while the BRPOP blocks: no payload is there, the wait is not
\* over and the connection stands.
RedisBRPopWait ==
  /\ pc = "brpop"
  /\ now < brpopUntil
  /\ NonEmptyQueues(replyTo) = {}
  /\ brokerUp
  /\ now' = now + 1
  /\ UNCHANGED << constVars, brokerUp, ctxDone, redisVars, amqpVars,
                  replyTo, deadline, responses, ret, startedAt, sent, written, pc,
                  lastStep,
                  sinceMsg >>

\* The lists after the oldest payload of key k is popped; a list that
\* becomes empty no longer exists.
Popped(k) ==
  IF Len(lists[k]) = 1 THEN Without(lists, k)
  ELSE [lists EXCEPT ![k] = Tail(lists[k])]

\* The BRPOP returns, and the rest of the loop body runs: an error other
\* than redis.Nil (the connection broke; or the context was cancelled and
\* the client noticed) ends the loop, redis.Nil (the wait is over) and a
\* skipped payload continue it, a valid payload is upserted.
RedisBRPopReturn ==
  /\ pc = "brpop"
  /\ \/ /\ ~brokerUp \/ ctxDone
        /\ pc' = "srem"
        /\ lastStep' = "error"
        /\ UNCHANGED << lists, responses, written >>
     \/ /\ brokerUp
        /\ NonEmptyQueues(replyTo) = {}
        /\ now >= brpopUntil
        /\ pc' = "loop"
        /\ lastStep' = "nil"
        /\ UNCHANGED << lists, responses, written >>
     \/ /\ brokerUp
        /\ NonEmptyQueues(replyTo) # {}
        /\ LET k == PopKey(replyTo) IN
           /\ lists' = Popped(k)
           /\ \E out \in RedisProcess(responses, Head(lists[k]), now) :
                /\ responses' = out.m
                /\ written' = IF out.w # <<>> THEN Noted(written, out.w, now)
                              ELSE written
                /\ lastStep' = IF out.w # <<>> THEN "upsert" ELSE "skip"
        /\ pc' = "loop"
  /\ UNCHANGED << constVars, now, brokerUp, ctxDone, rClient, published,
                  bindingSet, brpopUntil, amqpVars, replyTo, deadline,
                  ret, startedAt, sent,
                  sinceMsg >>

\* r.client.SRem(ctx, "_kombu.binding.reply.celery.pidbox", bindingKey); the
\* error of the command is not looked at.
RedisSRem ==
  /\ pc = "srem"
  /\ bindingSet' = IF RedisOk THEN bindingSet \ {BindingKey(replyTo)}
                   ELSE bindingSet
  /\ pc' = "del"
  /\ UNCHANGED << constVars, now, brokerUp, ctxDone, rClient, published,
                  lists, brpopUntil, amqpVars, replyTo, deadline,
                  responses, ret, startedAt, sent, written, lastStep,
                  sinceMsg >>

\* r.client.Del(ctx, replyQueues...), its error not looked at either, and
\* return responses, nil.
RedisDel ==
  /\ pc = "del"
  /\ lists' = IF RedisOk
              THEN [k \in (DOMAIN lists) \ {ReplyQueues(replyTo)[i] : i \in 1..4}
                      |-> lists[k]]
              ELSE lists
  /\ Returned(FALSE, responses, "nil")
  /\ UNCHANGED << constVars, now, brokerUp, ctxDone, rClient, published,
                  bindingSet, brpopUntil, amqpVars, replyTo, deadline,
                  responses, startedAt, sent, written, lastStep,
                  sinceMsg >>

(***************************************************************************)
(* The environment of the Redis transport                                  *)
(***************************************************************************)

\* The reply address, of the four, that the sender of payload id writes
\* to: every worker has its priority.
WorkerPriority(id) == (id % 4) + 1

\* A worker that received a ping resolves the reply routing key in the
\* binding set and pushes a payload to one of the reply addresses.
RedisWorkerReply ==
  /\ transport = "redis"
  /\ pc \notin {"idle", "done"}
  /\ brokerUp
  /\ sent < MaxReplies
  /\ replyTo \in published
  /\ BindingKey(replyTo) \in bindingSet
  /\ \E id \in PayloadIds :
       LET k == ReplyQueues(replyTo)[WorkerPriority(id)] IN
       lists' = IF k \in DOMAIN lists
                THEN [lists EXCEPT ![k] = Append(lists[k], id)]
                ELSE MapPut(lists, k, <<id>>)
  /\ sent' = sent + 1
  /\ UNCHANGED << constVars, now, brokerUp, ctxDone, rClient, published,
                  bindingSet, brpopUntil, amqpVars, pc, replyTo,
                  deadline, responses, ret, startedAt, written, lastStep,
                  sinceMsg >>

\* The caller cancels the context of the running call.
Cancel ==
  /\ pc \notin {"idle", "done"}
  /\ ~ctxDone
  /\ ctxDone' = TRUE
  /\ UNCHANGED << constVars, now, brokerUp, redisVars, amqpVars, pc,
                  replyTo, deadline, responses, ret, startedAt, sent, written,
                  lastStep,
                  sinceMsg >>

\* The Redis server becomes unreachable, or reachable again.
RedisBrokerFlip ==
  /\ transport = "redis"
  /\ pc # "done"
  /\ brokerUp' = ~brokerUp
  /\ UNCHANGED << constVars, now, ctxDone, redisVars, amqpVars, callVars,
                  ret >>

(***************************************************************************)
(* AMQPBroker                                                              *)
(***************************************************************************)

ExchangeNames == {"celery.pidbox", "reply.celery.pidbox"}

\* The commands of a call go through a.channel alone: they take effect
\* while that channel is open, whatever a.connection holds.  (The library
\* closes a channel together with the connection it was opened on.)  A
\* call made on its own has passed the nil test of Ping, and no Connect
\* runs beside it: its channel is open or closed, never nil.
AMQPOk == aChannel = "open"

\* A call that used the nil channel has crashed the process: a method of
\* the library on a nil *amqp.Channel dereferences it.
Crashed == \E c \in Calls : concCalls[c].pc = "panic"

\* An AMQP Health that does not look at whether the connection is closed.
AMQPHealthNoClosedCheck(connection, channel) ==
  IF connection = "nil" THEN "not initialized"
  ELSE IF channel = "nil" THEN "channel not initialized"
  ELSE "nil"

\* AMQPBroker.Health(ctx): the error it returns, given connection and channel.
AMQPHealth(connection, channel) ==
  IF connection = "nil" THEN "not initialized"
  ELSE IF connection = "closed" THEN "closed"
  ELSE IF channel = "nil" THEN "channel not initialized"
  ELSE "nil"

\* A declaration of the exchange name that also declares it actively after
\* a passive declare that succeeded.
DeclareExchangeAlwaysActive(name, outcome) ==
  [ops |-> << <<"passive", name>>, <<"active", name>> >>,
   err |-> IF outcome.passive \/ outcome.active THEN "nil" ELSE name]

\* The declaration of one exchange in declareExchanges, where outcome tells
\* whether ExchangeDeclarePassive and ExchangeDeclare succeed: the commands
\* issued, in order, and the exchange named by the error ("nil": no error).
DeclareExchange(name, outcome) ==
  IF outcome.passive
  THEN [ops |-> << <<"passive", name>> >>, err |-> "nil"]
  ELSE [ops |-> << <<"passive", name>>, <<"active", name>> >>,
        err |-> IF outcome.active THEN "nil" ELSE name]

\* AMQPBroker.declareExchanges(), with the outcomes of the declarations of
\* each exchange: celery.pidbox first, and reply.celery.pidbox when that
\* gave no error.
DeclareExchangesWith(outcomes) ==
  LET first == DeclareExchange("celery.pidbox", outcomes["celery.pidbox"])
      second == DeclareExchange("reply.celery.pidbox",
                                outcomes["reply.celery.pidbox"])
  IN  IF first.err # "nil" THEN first
      ELSE [ops |-> first.ops \o second.ops, err |-> second.err]

\* AMQPBroker.declareExchanges() at a broker where the exchanges of the set
\* existing exist: the commands issued, in order, and the error.  A passive
\* declare of an exchange that does not exist is a channel exception: the
\* broker closes the channel, and the active declare that follows fails on
\* the closed channel.
DeclareExchanges(existing) ==
  LET r == DeclareExchangesWith(
             [x \in ExchangeNames |->
                [passive |-> x \in existing, active |-> FALSE]])
  IN  [ops |-> r.ops, open |-> r.err = "nil", err |-> r.err # "nil"]

\* What amqp.Dial returns as the connection: "open" with no error; with an
\* error nil when the URL, the TCP connection or TLS failed ("nil"), and the
\* connection it had made when the AMQP handshake failed (credentials,
\* virtual host, tuning), which the library has closed by then ("closed")
\* or has not ("unopened": not nil, IsClosed() false, no channel can be
\* opened on it).
DialOutcomes == {"open", "nil", "closed", "unopened"}

\* AMQPBroker.Connect(ctx), up to the return of amqp.Dial: the result is
\* assigned to a.connection, also when Dial returns an error.  The channel
\* is not touched; one of an earlier Connect stays with the connection it
\* was opened on.
AMQPConnect ==
  /\ transport = "amqp"
  /\ pc = "idle"
  /\ lifecyclePc = "idle"
  /\ ~Crashed
  /\ \E dial \in DialOutcomes :
       /\ aConnection' = dial
       /\ IF dial = "open"
          THEN /\ lifecyclePc' = "channel"
               /\ UNCHANGED ret
          ELSE /\ ret' = Return("Connect", TRUE, EmptyMap, "connect")
               /\ UNCHANGED lifecyclePc
  /\ UNCHANGED << argVars, now, brokerUp, ctxDone, redisVars, aChannel,
                  queues, queueBindings, consumers, msgs, msgsClosed, timerAt,
                  timerC, callVars >>

\* a.channel, err = a.connection.Channel(): the channel, or nil when the
\* broker refuses it (channelOk) or the connection was lost meanwhile.  The
\* new channel is one of the new connection, over which no queue has been
\* declared; the earlier connection is not closed and keeps its queues.
AMQPConnectChannel ==
  /\ lifecyclePc = "channel"
  /\ ~Crashed
  /\ \E channelOk \in BOOLEAN :
       IF channelOk /\ aConnection = "open"
       THEN /\ aChannel' = "open"
            /\ concBroker' = [concBroker EXCEPT !.own = {}]
            /\ lifecyclePc' = "declare"
       ELSE /\ aChannel' = "nil"
            /\ lifecyclePc' = "release"
            /\ UNCHANGED concBroker
  /\ UNCHANGED << runVars, now, brokerUp, ctxDone, redisVars, aConnection,
                  queues, queueBindings, consumers, msgs, msgsClosed, timerAt,
                  timerC, callVars, ret >>

\* A Connect that returns the error of Channel() without closing the
\* connection.
AMQPConnectReleaseKeepsOpen ==
  /\ lifecyclePc = "release"
  /\ ~Crashed
  /\ ret' = Return("Connect", TRUE, EmptyMap, "channel")
  /\ lifecyclePc' = "idle"
  /\ UNCHANGED << argVars, now, brokerUp, ctxDone, redisVars, aConnection,
                  aChannel, queues, queueBindings, consumers, msgs,
                  msgsClosed, timerAt, timerC, callVars >>

\* No channel: a.connection.Close(), and the return of the error.
AMQPConnectRelease ==
  /\ lifecyclePc = "release"
  /\ ~Crashed
  /\ aConnection' = "closed"
  /\ ret' = Return("Connect", TRUE, EmptyMap, "channel")
  /\ lifecyclePc' = "idle"
  /\ UNCHANGED << argVars, now, brokerUp, ctxDone, redisVars, aChannel,
                  queues, queueBindings, consumers, msgs, msgsClosed, timerAt,
                  timerC, callVars >>

\* a.declareExchanges() at a broker that has the exchanges of the set
\* existing.  A declaration that fails leaves the channel closed: the
\* broker closes it on the passive declare of a missing exchange, and the
\* commands fail on a channel that was closed meanwhile.
AMQPConnectDeclare ==
  /\ lifecyclePc = "declare"
  /\ ~Crashed
  /\ \E existing \in SUBSET ExchangeNames :
       IF AMQPOk /\ ~DeclareExchanges(existing).err
       THEN /\ lifecyclePc' = "health"
            /\ UNCHANGED << aChannel, concBroker >>
       ELSE /\ aChannel' = "closed"
            /\ concBroker' = ChannelClosedAt(concBroker)
            /\ lifecyclePc' = "failed"
  /\ UNCHANGED << runVars, now, brokerUp, ctxDone, redisVars, aConnection,
                  queues, queueBindings, consumers, msgs, msgsClosed, timerAt,
                  timerC, callVars, ret >>

\* return a.Health(ctx): the last statement of Connect, on the connection
\* and the channel as they are then.  Nothing is closed when Health
\* returns an error.
AMQPConnectHealth ==
  /\ lifecyclePc = "health"
  /\ ~Crashed
  /\ ret' = Return("Connect", TRUE, EmptyMap, AMQPHealth(aConnection, aChannel))
  /\ lifecyclePc' = "idle"
  /\ UNCHANGED << argVars, now, brokerUp, ctxDone, redisVars, amqpVars,
                  callVars >>

\* if a.channel != nil { a.channel.Close() }: the broker cancels the
\* consumers of a channel that was open and deletes the queues that had
\* one (auto-delete); the delivery stream is closed.
CloseChannel ==
  /\ aChannel' = IF aChannel # "nil" THEN "closed" ELSE aChannel
  /\ IF aChannel = "open"
     THEN /\ queues' = queues \ consumers
          /\ queueBindings' = queueBindings \ consumers
          /\ consumers' = {}
          /\ msgsClosed' = TRUE
          /\ concBroker' = ChannelClosedAt(concBroker)
     ELSE UNCHANGED << queues, queueBindings, consumers, msgsClosed,
                       concBroker >>

\* if a.connection != nil { return a.connection.Close() }: the broker
\* deletes the queues of a connection that was open (exclusive).
CloseConnection ==
  /\ aConnection' = IF aConnection # "nil" THEN "closed" ELSE aConnection
  /\ IF aConnection = "open"
     THEN /\ queues' = {}
          /\ queueBindings' = {}
          /\ consumers' = {}
          /\ msgsClosed' = TRUE
          /\ concBroker' = ConnectionClosedAt(concBroker)
     ELSE UNCHANGED << queues, queueBindings, consumers, msgsClosed,
                       concBroker >>

\* The errors that a.connection.Close() can return: closing a closed
\* connection is an error of the library; on a connection whose handshake
\* failed the close is answered, or the connection is found closed.
CloseErrors ==
  IF aConnection = "closed" THEN {"closed"}
  ELSE IF aConnection = "unopened" THEN {"nil", "closed"}
  ELSE {"nil"}

\* The exchanges could not be declared: a.Close(), its first statement.
AMQPConnectClose ==
  /\ lifecyclePc = "failed"
  /\ ~Crashed
  /\ CloseChannel
  /\ lifecyclePc' = "failed.connection"
  /\ UNCHANGED << runVars, now, brokerUp, ctxDone, redisVars, aConnection,
                  msgs, timerAt, timerC, callVars, ret >>

\* The second statement of that a.Close(), and the return of the error of
\* the declaration.
AMQPConnectCloseConnection ==
  /\ lifecyclePc = "failed.connection"
  /\ ~Crashed
  /\ CloseConnection
  /\ ret' = Return("Connect", TRUE, EmptyMap, "declare exchanges")
  /\ lifecyclePc' = "idle"
  /\ UNCHANGED << runVars, now, brokerUp, ctxDone, redisVars, aChannel, msgs,
                  timerAt, timerC, callVars >>

\* AMQPBroker.Close(), its first statement: the channel is closed when it
\* is set.
AMQPClose ==
  /\ transport = "amqp"
  /\ pc \in {"idle", "done"}
  /\ lifecyclePc = "idle"
  /\ CloseChannel
  /\ lifecyclePc' = "close.connection"
  /\ UNCHANGED << runVars, now, brokerUp, ctxDone, redisVars, aConnection,
                  msgs, timerAt, timerC, callVars, ret >>

\* AMQPBroker.Close(), its second statement and its return: the connection
\* is closed when it is set, and the error of that is returned.
AMQPCloseConnection ==
  /\ lifecyclePc = "close.connection"
  /\ CloseConnection
  /\ \E err \in CloseErrors : ret' = Return("Close", TRUE, EmptyMap, err)
  /\ lifecyclePc' = "idle"
  /\ UNCHANGED << runVars, now, brokerUp, ctxDone, redisVars, aChannel, msgs,
                  timerAt, timerC, callVars >>

\* An AMQP Ping that publishes first, before the reply queue is declared and
\* bound.
AMQPPingPublishFirst ==
  /\ transport = "amqp"
  /\ pc = "idle"
  /\ lifecyclePc = "idle"
  /\ IF aConnection = "nil" \/ aChannel = "nil"
     THEN /\ Returned(TRUE, EmptyMap, "not initialized")
          /\ UNCHANGED << replyTo, startedAt >>
     ELSE /\ replyTo' = CreateReplyQueue(TokensInUse)
          /\ startedAt' = now
          /\ pc' = "publish"
          /\ UNCHANGED ret
  /\ UNCHANGED << constVars, now, brokerUp, ctxDone, redisVars, amqpVars,
                  deadline, responses, sent, written, lastStep,
                  sinceMsg >>

\* AMQPBroker.Ping(ctx, timeout, destinations), up to the first command:
\* the nil check and the reply token.
AMQPPing ==
  /\ transport = "amqp"
  /\ pc = "idle"
  /\ lifecyclePc = "idle"
  /\ IF aConnection = "nil" \/ aChannel = "nil"
     THEN /\ Returned(TRUE, EmptyMap, "not initialized")
          /\ UNCHANGED << replyTo, startedAt >>
     ELSE /\ replyTo' = CreateReplyQueue(TokensInUse)
          /\ startedAt' = now
          /\ pc' = "declare"
          /\ UNCHANGED ret
  /\ UNCHANGED << constVars, now, brokerUp, ctxDone, redisVars, amqpVars,
                  deadline, responses, sent, written, lastStep,
                  sinceMsg >>

\* a.channel.QueueDeclare(replyTo, false, true, true, false, nil)
AMQPQueueDeclare ==
  /\ pc = "declare"
  /\ IF AMQPOk
     THEN /\ queues' = queues \cup {replyTo}
          /\ pc' = "bind"
          /\ UNCHANGED ret
     ELSE /\ Returned(TRUE, EmptyMap, "declare reply queue")
          /\ UNCHANGED queues
  /\ UNCHANGED << constVars, now, brokerUp, ctxDone, redisVars, aConnection,
                  aChannel, queueBindings, consumers, msgs, msgsClosed,
                  timerAt, timerC, replyTo, deadline, responses, startedAt,
                  sent, written, lastStep,
                  sinceMsg >>

\* a.channel.QueueBind(replyQueue.Name, replyTo, "reply.celery.pidbox", ...)
AMQPQueueBind ==
  /\ pc = "bind"
  /\ IF AMQPOk
     THEN /\ queueBindings' = queueBindings \cup {replyTo}
          /\ pc' = "publish"
          /\ UNCHANGED ret
     ELSE /\ Returned(TRUE, EmptyMap, "bind reply queue")
          /\ UNCHANGED queueBindings
  /\ UNCHANGED << constVars, now, brokerUp, ctxDone, redisVars, aConnection,
                  aChannel, queues, consumers, msgs, msgsClosed, timerAt,
                  timerC, replyTo, deadline, responses, startedAt, sent,
                  written, lastStep,
                  sinceMsg >>

\* CreatePingMessage in the raw format and a.channel.PublishWithContext to
\* the exchange celery.pidbox.  Whether the client looks at a cancelled
\* context before it publishes depends on the client: both happen.
AMQPPublish ==
  /\ pc = "publish"
  /\ \E destinations \in Destinations, honoured \in BOOLEAN :
       IF CreatePingMessage(replyTo, destinations, MessageFormatRaw).err
       THEN /\ Returned(TRUE, EmptyMap, "create ping message")
            /\ UNCHANGED published
       ELSE IF AMQPOk /\ ~(ctxDone /\ honoured)
       THEN /\ published' = published \cup {replyTo}
            /\ pc' = "consume"
            /\ UNCHANGED ret
       ELSE /\ Returned(TRUE, EmptyMap, "publish")
            /\ UNCHANGED published
  /\ UNCHANGED << constVars, now, brokerUp, ctxDone, rClient, bindingSet,
                  lists, brpopUntil, amqpVars, replyTo, deadline, responses,
                  startedAt, sent, written, lastStep,
                  sinceMsg >>

\* responses := make(map[string]PingResponse), a.channel.Consume(...), and
\* on success the deadline and the inactivity timer.  The delivery stream
\* that Consume returns is a new one, and open.
AMQPConsume ==
  /\ pc = "consume"
  /\ IF AMQPOk
     THEN /\ consumers' = consumers \cup {replyTo}
          /\ msgsClosed' = FALSE
          /\ responses' = EmptyMap
          /\ deadline' = now + timeout
          /\ timerAt' = now + InactivityTicks
          /\ timerC' = FALSE
          /\ pc' = "select"
          /\ UNCHANGED ret
     ELSE /\ Returned(TRUE, EmptyMap, "consume")
          /\ UNCHANGED << consumers, msgsClosed, responses, deadline, timerAt,
                          timerC >>
  /\ UNCHANGED << constVars, now, brokerUp, ctxDone, redisVars, aConnection,
                  aChannel, queues, queueBindings, msgs, replyTo, startedAt,
                  sent, written, lastStep, sinceMsg >>

\* A collector step that starts the map afresh on a payload it cannot
\* decode.
AMQPCollectDropsOnBadPayload(m, response, t) ==
  IF response.err THEN {[w |-> <<>>, m |-> EmptyMap]}
  ELSE UNION {
         IF valid
         THEN {IF workerName # <<>>
               THEN [w |-> workerName,
                     m |-> Upsert(m, workerName, PingResponse(workerName, t))]
               ELSE [w |-> <<>>, m |-> m] :
               workerName \in ExtractWorkerName(response.m)}
         ELSE {[w |-> <<>>, m |-> m]} :
         valid \in ValidateResponse(response.m)}

\* The same code as in the Redis loop, from the decoding of a payload to
\* the upsert.
AMQPCollect(m, response, t) ==
  IF response.err THEN {[w |-> <<>>, m |-> m]}
  ELSE UNION {
         IF valid
         THEN {IF workerName # <<>>
               THEN [w |-> workerName,
                     m |-> Upsert(m, workerName, PingResponse(workerName, t))]
               ELSE [w |-> <<>>, m |-> m] :
               workerName \in ExtractWorkerName(response.m)}
         ELSE {[w |-> <<>>, m |-> m]} :
         valid \in ValidateResponse(response.m)}

\* The outcomes of the select loop's processing of payload id.
AMQPProcess(m, id, t) == AMQPCollect(m, Decoded[id], t)

\* No case of the select is ready.
SelectBlocked ==
  /\ ~ctxDone
  /\ now < deadline
  /\ msgs = <<>>
  /\ ~msgsClosed
  /\ ~timerC

\* Time passes while the select blocks; the inactivity timer fires when its
\* tick comes.
AMQPWait ==
  /\ pc = "select"
  /\ SelectBlocked
  /\ now' = now + 1
  /\ timerC' = (timerC \/ timerAt = now')
  /\ timerAt' = IF timerAt = now' THEN -1 ELSE timerAt
  /\ sinceMsg' = IF sinceMsg < InactivityTicks THEN sinceMsg + 1 ELSE sinceMsg
  /\ UNCHANGED << constVars, brokerUp, ctxDone, redisVars, aConnection,
                  aChannel, queues, queueBindings, consumers, msgs,
                  msgsClosed, pc, replyTo, deadline, responses, ret,
                  startedAt, sent, written, lastStep >>

\* A cancellation case that returns the error without the map.
AMQPSelectDoneDropsMap ==
  /\ pc = "select"
  /\ ctxDone
  /\ lastStep' = "cancel"
  /\ Returned(TRUE, EmptyMap, "context")
  /\ UNCHANGED << constVars, now, brokerUp, ctxDone, redisVars, amqpVars,
                  replyTo, deadline, responses, startedAt, sent, written,
                  sinceMsg >>

\* case <-ctx.Done(): return responses, ctx.Err()
AMQPSelectDone ==
  /\ pc = "select"
  /\ ctxDone
  /\ lastStep' = "cancel"
  /\ Returned(FALSE, responses, "context")
  /\ UNCHANGED << constVars, now, brokerUp, ctxDone, redisVars, amqpVars,
                  replyTo, deadline, responses, startedAt, sent, written,
                  sinceMsg >>

\* case <-deadline: return responses, nil
AMQPSelectDeadline ==
  /\ pc = "select"
  /\ now >= deadline
  /\ lastStep' = "deadline"
  /\ Returned(FALSE, responses, "nil")
  /\ UNCHANGED << constVars, now, brokerUp, ctxDone, redisVars, amqpVars,
                  replyTo, deadline, responses, startedAt, sent, written,
                  sinceMsg >>

\* case msg, ok := <-msgs: a closed stream ends the call; a message re-arms
\* the inactivity timer and is processed.  Reset leaves a value that the
\* timer already sent in the channel when the build has asynchronous timer
\* channels, and discards it otherwise.  Once the stream is closed, the
\* library hands a delivery it still holds over or drops it with all that
\* follow, and the loop sees the close: both happen.
AMQPSelectMsg ==
  /\ pc = "select"
  /\ \/ /\ msgsClosed
        /\ msgs' = <<>>
        /\ lastStep' = "closed"
        /\ Returned(FALSE, responses, "nil")
        /\ UNCHANGED << timerAt, timerC, responses, written, sinceMsg >>
     \/ /\ msgs # <<>>
        /\ msgs' = Tail(msgs)
        /\ timerAt' = now + InactivityTicks
        /\ timerC' = (asyncTimerChan /\ timerC)
        /\ sinceMsg' = 0
        /\ \E out \in AMQPProcess(responses, Head(msgs), now) :
             /\ responses' = out.m
             /\ written' = IF out.w # <<>> THEN Noted(written, out.w, now)
                           ELSE written
             /\ lastStep' = IF out.w # <<>> THEN "upsert" ELSE "skip"
        /\ UNCHANGED << pc, ret >>
  /\ UNCHANGED << constVars, now, brokerUp, ctxDone, redisVars, aConnection,
                  aChannel, queues, queueBindings, consumers, msgsClosed,
                  replyTo, deadline, startedAt, sent >>

\* case <-responseTimeout.C: return when a response has been collected.
AMQPSelectTimer ==
  /\ pc = "select"
  /\ timerC
  /\ timerC' = FALSE
  /\ IF Cardinality(DOMAIN responses) > 0
     THEN /\ lastStep' = "quiet"
          /\ Returned(FALSE, responses, "nil")
     ELSE /\ lastStep' = "timer"
          /\ UNCHANGED << pc, ret >>
  /\ UNCHANGED << constVars, now, brokerUp, ctxDone, redisVars, aConnection,
                  aChannel, queues, queueBindings, consumers, msgs,
                  msgsClosed, timerAt, replyTo, deadline, responses,
                  startedAt, sent, written, sinceMsg >>

(***************************************************************************)
(* The environment of the AMQP transport                                   *)
(***************************************************************************)

\* A worker that received the ping publishes a payload to the exchange
\* reply.celery.pidbox with the token as routing key; the exchange routes
\* it to the queue bound with that key.
AMQPWorkerReply ==
  /\ transport = "amqp"
  /\ pc \notin {"idle", "done"}
  /\ sent < MaxReplies
  /\ replyTo \in published
  /\ replyTo \in queues
  /\ replyTo \in queueBindings
  /\ \E id \in PayloadIds : msgs' = Append(msgs, id)
  /\ sent' = sent + 1
  /\ UNCHANGED << constVars, now, brokerUp, ctxDone, redisVars, aConnection,
                  aChannel, queues, queueBindings, consumers, msgsClosed,
                  timerAt, timerC, pc, replyTo, deadline, responses, ret,
                  startedAt, written, lastStep, sinceMsg >>

\* The channel fails (scope "channel": the broker closes it on a channel
\* exception) or its connection is lost (scope "connection"), which is the
\* one in a.connection when that is open, and an earlier one else.  The
\* delivery stream is closed and the consumers of the channel are gone; a
\* queue that had a consumer is deleted with it (auto-delete), and every
\* queue of a lost connection is deleted (exclusive).  The deliveries the
\* loop has not received stay in msgs until its next receive, which takes
\* the oldest or sees the close and drops them (AMQPSelectMsg).
AMQPFailure ==
  /\ transport = "amqp"
  /\ pc \notin {"idle", "done"}
  /\ aChannel = "open"
  /\ \E scope \in {"channel", "connection"} :
       /\ aChannel' = "closed"
       /\ aConnection' = IF scope = "connection" /\ aConnection = "open"
                         THEN "closed" ELSE aConnection
       /\ queues' = IF scope = "connection" THEN {} ELSE queues \ consumers
       /\ queueBindings' = IF scope = "connection" THEN {}
                           ELSE queueBindings \ consumers
  /\ consumers' = {}
  /\ msgsClosed' = TRUE
  /\ UNCHANGED << constVars, now, brokerUp, ctxDone, redisVars, msgs,
                  timerAt, timerC, callVars, ret, sinceMsg >>

(***************************************************************************)
(* Two Ping calls in flight at once                                        *)
(***************************************************************************)

\* The variables of the single call, which the concurrent calls leave alone.
soloVars == << brokerVars, probe, codecIn, codecOut, configVars >>

\* Those variables but the channel, which the broker closes under a call.
soloVarsButChannel ==
  << transport, timeout, asyncTimerChan, now, brokerUp, ctxDone, redisVars,
     aConnection, queues, queueBindings, consumers, msgs, msgsClosed, timerAt,
     timerC, lifecyclePc, callVars, ret, probe, codecIn, codecOut,
     configVars >>

\* The payloads the workers answer the concurrent calls with.
ConcPayloads == {1, 2, 4}

\* The queue q of the broker after payload id, addressed to token to, is
\* written to the queue named k.
Pushed(q, k, id, to) ==
  IF k \in DOMAIN q THEN [q EXCEPT ![k] = Append(q[k], [id |-> id, to |-> to])]
  ELSE MapPut(q, k, << [id |-> id, to |-> to] >>)

\* Call c goes to position p.
CallAt(c, p) == [concCalls EXCEPT ![c].pc = p]

\* Call c dereferences the nil channel: the panic, which nothing recovers,
\* ends the process, and no call takes a step after it.
Panic(c) == CallAt(c, "panic")

\* The broker refuses a command of call c on its reply queue: the queue is
\* exclusive to the connection it was declared over, and the channel in
\* a.channel is one of another connection (405 RESOURCE_LOCKED), or the
\* queue is gone (404 NOT_FOUND).  The broker closes the channel, and the
\* call returns the error of the command.
ConcAMQPRefused(c) ==
  /\ concCalls' = CallAt(c, "done")
  /\ aChannel' = "closed"
  /\ concBroker' = ChannelClosedAt(concBroker)

\* RedisBroker.Ping of call c, up to the first command.
ConcRedisPing(c) ==
  /\ transport = "redis"
  /\ concCalls[c].pc = "idle"
  /\ IF rClient = "nil"
     THEN concCalls' = CallAt(c, "done")
     ELSE LET token == CreateReplyQueue(TokensInUse)
              pingData == CreatePingMessage(token, <<>>, MessageFormatEnveloped)
          IN  concCalls' = [concCalls EXCEPT ![c].tok = token,
                                             ![c].ping = pingData.body,
                                             ![c].pc = "publish"]
  /\ UNCHANGED << soloVars, concBroker >>

\* r.client.Publish(ctx, "/0.celery.pidbox", pingData) of call c
ConcRedisPublish(c) ==
  /\ concCalls[c].pc = "publish"
  /\ IF RedisOk
     THEN /\ concBroker' = [concBroker EXCEPT
                              !.pings = @ \cup {concCalls[c].ping}]
          /\ concCalls' = [concCalls EXCEPT
               ![c].pubKey = @ \cup {concCalls[c].ping.reply_to.routing_key},
               ![c].pc = "sadd"]
     ELSE /\ concCalls' = CallAt(c, "done")
          /\ UNCHANGED concBroker
  /\ UNCHANGED soloVars

\* r.client.SAdd(ctx, "_kombu.binding.reply.celery.pidbox", bindingKey)
ConcRedisSAdd(c) ==
  /\ concCalls[c].pc = "sadd"
  /\ IF RedisOk
     THEN /\ concBroker' = [concBroker EXCEPT
                              !.bindings = @ \cup {BindingKey(concCalls[c].tok)}]
          /\ concCalls' = [concCalls EXCEPT
                             ![c].bound = @ \cup {BindingKey(concCalls[c].tok)},
                             ![c].pc = "loop"]
     ELSE /\ concCalls' = CallAt(c, "done")
          /\ UNCHANGED concBroker
  /\ UNCHANGED soloVars

\* The reply addresses of call c that hold a payload.
ConcNonEmpty(c) ==
  {i \in 1..4 : ReplyQueues(concCalls[c].tok)[i] \in DOMAIN concBroker.q}

\* r.client.BRPop(ctx, brpopTimeout, replyQueues...) of call c returns a
\* payload, and the rest of the loop body runs on it.
ConcRedisBRPop(c) ==
  /\ transport = "redis"
  /\ concCalls[c].pc = "loop"
  /\ ConcNonEmpty(c) # {}
  /\ LET i == CHOOSE i \in ConcNonEmpty(c) : \A j \in ConcNonEmpty(c) : i <= j
         k == ReplyQueues(concCalls[c].tok)[i]
         item == Head(concBroker.q[k])
     IN  /\ concBroker' = [concBroker EXCEPT
                             !.q = IF Len(concBroker.q[k]) = 1 THEN Without(@, k)
                                   ELSE [@ EXCEPT ![k] = Tail(@)]]
         /\ \E out \in RedisProcess(concCalls[c].resp, item.id, now) :
              concCalls' = [concCalls EXCEPT ![c].resp = out.m,
                                             ![c].from = @ \cup {item.to},
                                             ![c].keys = @ \cup {k}]
  /\ UNCHANGED soloVars

\* A cleanup of call c that deletes the binding set instead of removing the
\* member of the call from it.
ConcRedisSRemDropsSet(c) ==
  /\ transport = "redis"
  /\ concCalls[c].pc = "loop"
  /\ concBroker' = [concBroker EXCEPT
                      !.bindings = IF RedisOk THEN {} ELSE @]
  /\ concCalls' = CallAt(c, "del")
  /\ UNCHANGED soloVars

\* The loop of call c ends, and r.client.SRem(ctx, ..., bindingKey) runs.
ConcRedisSRem(c) ==
  /\ transport = "redis"
  /\ concCalls[c].pc = "loop"
  /\ concBroker' = [concBroker EXCEPT
                      !.bindings = IF RedisOk
                                   THEN @ \ {BindingKey(concCalls[c].tok)}
                                   ELSE @]
  /\ concCalls' = CallAt(c, "del")
  /\ UNCHANGED soloVars

\* r.client.Del(ctx, replyQueues...) of call c, and its return.
ConcRedisDel(c) ==
  /\ concCalls[c].pc = "del"
  /\ concBroker' = [concBroker EXCEPT
       !.q = IF RedisOk
             THEN [k \in (DOMAIN @) \
                           {ReplyQueues(concCalls[c].tok)[i] : i \in 1..4}
                     |-> @[k]]
             ELSE @]
  /\ concCalls' = CallAt(c, "done")
  /\ UNCHANGED soloVars

\* A worker answers a ping it received: it resolves the reply routing key
\* of the ping message in the binding set and writes a payload to the
\* queue bound under it, at the priority of the worker.
ConcRedisWorkerReply ==
  /\ transport = "redis"
  /\ concBroker.sent < MaxReplies
  /\ \E ping \in concBroker.pings, b \in concBroker.bindings,
        id \in ConcPayloads :
       /\ b[1] = ping.reply_to.routing_key
       /\ concBroker' = [concBroker EXCEPT
            !.q = Pushed(@, ReplyQueues(b[2][1])[WorkerPriority(id)], id, b[1]),
            !.sent = @ + 1]
  /\ UNCHANGED << soloVars, concCalls >>

\* AMQPBroker.Ping of call c, up to the first command.
ConcAMQPPing(c) ==
  /\ transport = "amqp"
  /\ concCalls[c].pc = "idle"
  /\ ~Crashed
  /\ concCalls' =
       IF aConnection = "nil" \/ aChannel = "nil" THEN CallAt(c, "done")
       ELSE [concCalls EXCEPT ![c].tok = CreateReplyQueue(TokensInUse),
                              ![c].pc = "declare"]
  /\ UNCHANGED << soloVars, concBroker >>

\* a.channel.QueueDeclare(replyTo, ...) of call c
ConcAMQPQueueDeclare(c) ==
  /\ concCalls[c].pc = "declare"
  /\ ~Crashed
  /\ IF aChannel = "nil"
     THEN /\ concCalls' = Panic(c)
          /\ UNCHANGED concBroker
          /\ UNCHANGED aChannel
     ELSE IF AMQPOk /\ concCalls[c].tok \in DOMAIN concBroker.q
                    /\ concCalls[c].tok \notin concBroker.own
     THEN ConcAMQPRefused(c)
     ELSE IF AMQPOk
     THEN /\ concBroker' = [concBroker EXCEPT
               !.q = IF concCalls[c].tok \in DOMAIN @ THEN @
                     ELSE MapPut(@, concCalls[c].tok, <<>>),
               !.own = @ \cup {concCalls[c].tok}]
          /\ concCalls' = [concCalls EXCEPT
                             ![c].declared = @ \cup {concCalls[c].tok},
                             ![c].pc = "bind"]
          /\ UNCHANGED aChannel
     ELSE /\ concCalls' = CallAt(c, "done")
          /\ UNCHANGED << concBroker, aChannel >>
  /\ UNCHANGED soloVarsButChannel

\* a.channel.QueueBind(replyQueue.Name, replyTo, "reply.celery.pidbox", ...)
ConcAMQPQueueBind(c) ==
  /\ concCalls[c].pc = "bind"
  /\ ~Crashed
  /\ IF aChannel = "nil"
     THEN /\ concCalls' = Panic(c)
          /\ UNCHANGED concBroker
          /\ UNCHANGED aChannel
     ELSE IF AMQPOk /\ concCalls[c].tok \notin concBroker.own
     THEN ConcAMQPRefused(c)
     ELSE IF AMQPOk
     THEN LET binding == <<concCalls[c].tok, concCalls[c].tok>> IN
          /\ concBroker' = [concBroker EXCEPT !.bindings = @ \cup {binding}]
          /\ concCalls' = [concCalls EXCEPT ![c].bound = @ \cup {binding},
                                            ![c].pc = "amqp publish"]
          /\ UNCHANGED aChannel
     ELSE /\ concCalls' = CallAt(c, "done")
          /\ UNCHANGED << concBroker, aChannel >>
  /\ UNCHANGED soloVarsButChannel

\* CreatePingMessage in the raw format and a.channel.PublishWithContext
ConcAMQPPublish(c) ==
  /\ concCalls[c].pc = "amqp publish"
  /\ ~Crashed
  /\ IF aChannel = "nil"
     THEN /\ concCalls' = Panic(c)
          /\ UNCHANGED concBroker
     ELSE IF AMQPOk
     THEN LET pingData == CreatePingMessage(concCalls[c].tok, <<>>,
                                            MessageFormatRaw) IN
          /\ concBroker' = [concBroker EXCEPT !.pings = @ \cup {pingData.body}]
          /\ concCalls' = [concCalls EXCEPT
               ![c].ping = pingData.body,
               ![c].pubKey = @ \cup {pingData.body.reply_to.routing_key},
               ![c].pc = "consume"]
     ELSE /\ concCalls' = CallAt(c, "done")
          /\ UNCHANGED concBroker
  /\ UNCHANGED soloVars

\* a.channel.Consume(replyQueue.Name, ...) of call c
ConcAMQPConsume(c) ==
  /\ concCalls[c].pc = "consume"
  /\ ~Crashed
  /\ IF aChannel = "nil"
     THEN /\ concCalls' = Panic(c)
          /\ UNCHANGED concBroker
          /\ UNCHANGED aChannel
     ELSE IF AMQPOk /\ concCalls[c].tok \notin concBroker.own
     THEN ConcAMQPRefused(c)
     ELSE IF AMQPOk
     THEN /\ concBroker' = [concBroker EXCEPT
               !.consumers = @ \cup {<<c, concCalls[c].tok>>}]
          /\ concCalls' = CallAt(c, "select")
          /\ UNCHANGED aChannel
     ELSE /\ concCalls' = CallAt(c, "done")
          /\ UNCHANGED << concBroker, aChannel >>
  /\ UNCHANGED soloVarsButChannel

\* case msg, ok := <-msgs of call c: a message of a queue the call consumes
\* from is delivered to it and processed.
ConcAMQPSelectMsg(c) ==
  /\ concCalls[c].pc = "select"
  /\ ~Crashed
  /\ \E consumer \in concBroker.consumers :
       /\ consumer[1] = c
       /\ consumer[2] \in DOMAIN concBroker.q
       /\ concBroker.q[consumer[2]] # <<>>
       /\ concBroker' = [concBroker EXCEPT !.q[consumer[2]] = Tail(@)]
       /\ \E out \in AMQPProcess(concCalls[c].resp,
                                 Head(concBroker.q[consumer[2]]).id, now) :
            concCalls' = [concCalls EXCEPT
              ![c].resp = out.m,
              ![c].from = @ \cup {Head(concBroker.q[consumer[2]]).to},
              ![c].keys = @ \cup {consumer[2]}]
  /\ UNCHANGED soloVars

\* Call c returns from its select loop; its consumer and its queue stay.
ConcAMQPReturn(c) ==
  /\ concCalls[c].pc = "select"
  /\ ~Crashed
  /\ concCalls' = CallAt(c, "done")
  /\ UNCHANGED << soloVars, concBroker >>

\* A worker answers a ping it received: it publishes a payload to the
\* exchange reply.celery.pidbox with the reply routing key of the ping
\* message, and the exchange routes it to a queue bound under that key.
ConcAMQPWorkerReply ==
  /\ transport = "amqp"
  /\ concBroker.sent < MaxReplies
  /\ \E ping \in concBroker.pings, b \in concBroker.bindings,
        id \in ConcPayloads :
       /\ b[1] = ping.reply_to.routing_key
       /\ b[2] \in DOMAIN concBroker.q
       /\ concBroker' = [concBroker EXCEPT
            !.q[b[2]] = Append(@, [id |-> id, to |-> b[1]]),
            !.sent = @ + 1]
  /\ UNCHANGED << soloVars, concCalls >>

\* The runs of two calls that are made at once on a transport, connected
\* or not.
InitTwoCalls ==
  /\ Init
  /\ timeout = MaxTimeout
  /\ asyncTimerChan = FALSE

NextTwoCalls ==
  \/ RedisConnect
  \/ AMQPConnect
  \/ AMQPConnectChannel
  \/ AMQPConnectRelease
  \/ AMQPConnectDeclare
  \/ AMQPConnectHealth
  \/ AMQPConnectClose
  \/ AMQPConnectCloseConnection
  \/ \E c \in Calls : ConcRedisPing(c)
  \/ \E c \in Calls : ConcRedisPublish(c)
  \/ \E c \in Calls : ConcRedisSAdd(c)
  \/ \E c \in Calls : ConcRedisBRPop(c)
  \/ \E c \in Calls : ConcRedisSRem(c)
  \/ \E c \in Calls : ConcRedisDel(c)
  \/ ConcRedisWorkerReply
  \/ \E c \in Calls : ConcAMQPPing(c)
  \/ \E c \in Calls : ConcAMQPQueueDeclare(c)
  \/ \E c \in Calls : ConcAMQPQueueBind(c)
  \/ \E c \in Calls : ConcAMQPPublish(c)
  \/ \E c \in Calls : ConcAMQPConsume(c)
  \/ \E c \in Calls : ConcAMQPSelectMsg(c)
  \/ \E c \in Calls : ConcAMQPReturn(c)
  \/ ConcAMQPWorkerReply

SpecTwoCalls == InitTwoCalls /\ [][NextTwoCalls]_vars

(***************************************************************************)
(* The handler applied to bounded inputs                                   *)
(***************************************************************************)

\* The number of identifiers in a destinations argument.
MaxDestinations == 2

\* The number of times a function of the handler is applied to one input.
MaxApplications == 3

\* The worker identifiers named as destinations: two plain ones, and one
\* with characters that encoding/json escapes (<, >, &, the quote, the
\* backslash, a line feed, a control character) and one that it copies (an
\* e with an acute accent, two bytes).
WorkerIds ==
  { JStr(<<"w", "1", "@", "h">>), JStr(<<"w", "2", "@", "h">>),
    JStr(<<"a", "<", "b", ">", "&", "\"", "c", "\\", "d", "\n",
           ByteToChar(1), ByteToChar(195), ByteToChar(169), "@", "h">>) }

\* The destinations arguments: nil and the empty slice (both of length 0),
\* and the lists of up to MaxDestinations identifiers.
DestinationLists == UNION {[1..n -> WorkerIds] : n \in 0..MaxDestinations}

\* The response documents of the runs, as texts:
\*   Pong: {"celery@nero":{"ok":"pong"}}
\*     (a pong keyed by the worker)
\*   Hostname: {"hostname":"worker@host"}
\*     (an identity field at top level)
\*   NestedWorker: {"worker":{"hostname":"worker3@host"}}
\*     (an identity field inside a nested worker structure only)
\*   NestedData: {"data":{"hostname":"w4@h"}}
\*     (an identity field inside a nested data structure only)
\*   Other: {"other":"data"}
\*     (no worker evidence)
\*   NotPong: {"x@y":{"ok":"error"}}
\*     (a worker key whose ok field is not pong)
\*   TwoWorkers: {"a@h":{"ok":"pong"},"b@h":{"ok":"pong"}}
\*     (two worker keys)
\*   TwoOrders: {"host":"","k":"w2@h"}
\*     (two last-resort matches, one of them the empty text)
\*   TwoMatches: {"k1":"a@h","k2":"b@h"}
\*     (two last-resort matches)
\*   EmptyHostname: {"hostname":""}
\*     (an identity field with the empty text)
\*   Mail: {"note":"mail a@b"}
\*     (a string value with an @ under a key that is no identity field)
\*   Number: {"name":7}
\*     (an identity field that is no string)
Doc ==
  [ Pong |->
      <<"{", "\"", "c", "e", "l", "e", "r", "y", "@", "n", "e", "r", "o",
        "\"", ":", "{", "\"", "o", "k", "\"", ":", "\"", "p", "o", "n",
        "g", "\"", "}", "}">>,
    Hostname |->
      <<"{", "\"", "h", "o", "s", "t", "n", "a", "m", "e", "\"", ":", "\"",
        "w", "o", "r", "k", "e", "r", "@", "h", "o", "s", "t", "\"", "}">>,
    NestedWorker |->
      <<"{", "\"", "w", "o", "r", "k", "e", "r", "\"", ":", "{", "\"", "h",
        "o", "s", "t", "n", "a", "m", "e", "\"", ":", "\"", "w", "o", "r",
        "k", "e", "r", "3", "@", "h", "o", "s", "t", "\"", "}", "}">>,
    NestedData |->
      <<"{", "\"", "d", "a", "t", "a", "\"", ":", "{", "\"", "h", "o", "s",
        "t", "n", "a", "m", "e", "\"", ":", "\"", "w", "4", "@", "h", "\"",
        "}", "}">>,
    Other |->
      <<"{", "\"", "o", "t", "h", "e", "r", "\"", ":", "\"", "d", "a", "t",
        "a", "\"", "}">>,
    NotPong |->
      <<"{", "\"", "x", "@", "y", "\"", ":", "{", "\"", "o", "k", "\"",
        ":", "\"", "e", "r", "r", "o", "r", "\"", "}", "}">>,
    TwoWorkers |->
      <<"{", "\"", "a", "@", "h", "\"", ":", "{", "\"", "o", "k", "\"",
        ":", "\"", "p", "o", "n", "g", "\"", "}", ",", "\"", "b", "@", "h",
        "\"", ":", "{", "\"", "o", "k", "\"", ":", "\"", "p", "o", "n",
        "g", "\"", "}", "}">>,
    TwoOrders |->
      <<"{", "\"", "h", "o", "s", "t", "\"", ":", "\"", "\"", ",", "\"",
        "k", "\"", ":", "\"", "w", "2", "@", "h", "\"", "}">>,
    TwoMatches |->
      <<"{", "\"", "k", "1", "\"", ":", "\"", "a", "@", "h", "\"", ",",
        "\"", "k", "2", "\"", ":", "\"", "b", "@", "h", "\"", "}">>,
    EmptyHostname |->
      <<"{", "\"", "h", "o", "s", "t", "n", "a", "m", "e", "\"", ":", "\"",
        "\"", "}">>,
    Mail |->
      <<"{", "\"", "n", "o", "t", "e", "\"", ":", "\"", "m", "a", "i", "l",
        " ", "a", "@", "b", "\"", "}">>,
    Number |->
      <<"{", "\"", "n", "a", "m", "e", "\"", ":", "7", "}">> ]

\* The response documents the handler is applied to, as texts.
Documents ==
  << Doc.Pong, Doc.Hostname, Doc.NestedWorker, Doc.NestedData,
     Doc.Other, Doc.NotPong, Doc.TwoWorkers, Doc.TwoOrders,
     Doc.TwoMatches, Doc.EmptyHostname, Doc.Mail, Doc.Number >>

\* The documents as json.Unmarshal gives them to the handler.
DocumentMaps == [i \in 1..Len(Documents) |-> JsonUnmarshalMap(Documents[i]).m]

\* The worker names of the pong documents.
PongNames == << <<"w", "1", "@", "h">>, <<"a", "@", "b", ".", "c">> >>

\* The texts of the hostname fields: one with an @ and one without.
HostNames == << <<"w", "1", "@", "h">>, <<"h", "1">> >>

\* The pong of worker w as a worker writes it: {"w":{"ok":"pong"}}
PongDocument(w) == JsonMarshal(JObj(w :> JObj(StrOk :> JStr(StrPong))))

\* A document with nothing but the hostname h: {"hostname":"h"}
HostnameDocument(h) == JsonMarshal(JObj(IdentityFields[1] :> JStr(h)))

\* The text inside an envelope of the transport: its base64 text is the
\* body, next to the headers and properties of the envelope.
Wrapped(text) == JsonMarshal(Envelope(Base64Encode(text), 10, <<"k", "1">>))

\* Payloads that are no reply of a worker, as texts:
\*   Empty: 
\*     (no bytes)
\*   Null: null
\*     (the JSON value null)
\*   Array: [1]
\*     (a JSON array)
\*   Number: 7
\*     (a JSON number)
\*   BodyNumber: {"body":5,"x":"y"}
\*     (a body that is no string)
\*   Spaced: {"celery@host": {"ok": "pong"}}
\*     (a pong written with spaces)
\*   Escaped: {"w1\u0040h":{"ok":"pong"}}
\*     (a pong whose key writes the @ as an escape)
\*   Accent: {"<c3><a9>@h":{"ok":"pong"}}
\*     (a pong whose key holds the two bytes of an e with an acute accent)
\*   Backspace: {"hostname":"h\b\f1"}
\*     (a hostname with the escapes of a backspace and a form feed)
\*   ControlByte: {"a":"^A"}
\*     (a string with the raw byte 0x01)
\*   Huge: {"w1@h":{"ok":"pong"},"n":1e400}
\*     (a pong beside a number that no float64 holds)
\*   LoneSurrogate: {"hostname":"\ud83d@h"}
\*     (a hostname with half of a surrogate pair)
\*   TestEnvelope: {\n\t"body": "eyJjZWxlcnlAaG9zdCI6IHsib2siOiAicG9uZyJ9fQ==",\n\t"properties": {"delivery_mode": 2},\n\t"headers": {"expires": 1234567890}\n}
\*     (the envelope of TestHandler_ParseWorkerResponse around the spaced pong)
Odd ==
  [ Empty |->
      <<>>,
    Null |->
      <<"n", "u", "l", "l">>,
    Array |->
      <<"[", "1", "]">>,
    Number |->
      <<"7">>,
    BodyNumber |->
      <<"{", "\"", "b", "o", "d", "y", "\"", ":", "5", ",", "\"", "x",
        "\"", ":", "\"", "y", "\"", "}">>,
    Spaced |->
      <<"{", "\"", "c", "e", "l", "e", "r", "y", "@", "h", "o", "s", "t",
        "\"", ":", " ", "{", "\"", "o", "k", "\"", ":", " ", "\"", "p",
        "o", "n", "g", "\"", "}", "}">>,
    Escaped |->
      <<"{", "\"", "w", "1", "\\", "u", "0", "0", "4", "0", "h", "\"", ":",
        "{", "\"", "o", "k", "\"", ":", "\"", "p", "o", "n", "g", "\"", "}",
        "}">>,
    Accent |->
      <<"{", "\"", ByteToChar(195), ByteToChar(169), "@", "h", "\"", ":",
        "{", "\"", "o", "k", "\"", ":", "\"", "p", "o", "n", "g", "\"", "}",
        "}">>,
    Backspace |->
      <<"{", "\"", "h", "o", "s", "t", "n", "a", "m", "e", "\"", ":", "\"",
        "h", "\\", "b", "\\", "f", "1", "\"", "}">>,
    ControlByte |->
      <<"{", "\"", "a", "\"", ":", "\"", ByteToChar(1), "\"", "}">>,
    Huge |->
      <<"{", "\"", "w", "1", "@", "h", "\"", ":", "{", "\"", "o", "k",
        "\"", ":", "\"", "p", "o", "n", "g", "\"", "}", ",", "\"", "n",
        "\"", ":", "1", "e", "4", "0", "0", "}">>,
    LoneSurrogate |->
      <<"{", "\"", "h", "o", "s", "t", "n", "a", "m", "e", "\"", ":", "\"",
        "\\", "u", "d", "8", "3", "d", "@", "h", "\"", "}">>,
    TestEnvelope |->
      <<"{", "\n", "\t", "\"", "b", "o", "d", "y", "\"", ":", " ", "\"",
        "e", "y", "J", "j", "Z", "W", "x", "l", "c", "n", "l", "A", "a",
        "G", "9", "z", "d", "C", "I", "6", "I", "H", "s", "i", "b", "2",
        "s", "i", "O", "i", "A", "i", "c", "G", "9", "u", "Z", "y", "J",
        "9", "f", "Q", "=", "=", "\"", ",", "\n", "\t", "\"", "p", "r",
        "o", "p", "e", "r", "t", "i", "e", "s", "\"", ":", " ", "{", "\"",
        "d", "e", "l", "i", "v", "e", "r", "y", "_", "m", "o", "d", "e",
        "\"", ":", " ", "2", "}", ",", "\n", "\t", "\"", "h", "e", "a",
        "d", "e", "r", "s", "\"", ":", " ", "{", "\"", "e", "x", "p", "i",
        "r", "e", "s", "\"", ":", " ", "1", "2", "3", "4", "5", "6", "7",
        "8", "9", "0", "}", "\n", "}">> ]

\* A payload on the wire: its bytes, what it is (a pong keyed by the worker,
\* a document with only a hostname, or something else) and the identity it
\* carries.
WirePayload(data, kind, id) == [data |-> data, kind |-> kind, id |-> id]

\* The payloads the handler decodes in the runs: every pong and hostname
\* document directly and in an envelope, and the payloads that are none.
WireInputs ==
  [i \in 1..Len(PongNames) |->
     WirePayload(PongDocument(PongNames[i]), "pong", PongNames[i])]
  \o [i \in 1..Len(PongNames) |->
        WirePayload(Wrapped(PongDocument(PongNames[i])), "pong", PongNames[i])]
  \o [i \in 1..Len(HostNames) |->
        WirePayload(HostnameDocument(HostNames[i]), "hostname", HostNames[i])]
  \o [i \in 1..Len(HostNames) |->
        WirePayload(Wrapped(HostnameDocument(HostNames[i])), "hostname",
                    HostNames[i])]
  \o << WirePayload(Odd.Spaced, "pong", <<"c", "e", "l", "e", "r", "y", "@", "h", "o", "s", "t">>),
        WirePayload(Odd.TestEnvelope, "pong", <<"c", "e", "l", "e", "r", "y", "@", "h", "o", "s", "t">>),
        WirePayload(Odd.Escaped, "pong", <<"w", "1", "@", "h">>),
        WirePayload(Odd.Accent, "pong",
                    BytesText(<<195, 169>>) \o <<"@", "h">>),
        WirePayload(Odd.Backspace, "hostname",
                    <<"h", ByteToChar(8), ByteToChar(12), "1">>),
        WirePayload(Odd.LoneSurrogate, "hostname",
                    ReplacementText \o <<"@", "h">>),
        WirePayload(Odd.ControlByte, "no JSON", <<>>),
        WirePayload(Odd.Empty, "no JSON", <<>>),
        WirePayload(Truncated, "no JSON", <<>>),
        WirePayload(Odd.Huge, "no JSON", <<>>),
        WirePayload(Odd.Null, "null", <<>>),
        WirePayload(Odd.Array, "no object", <<>>),
        WirePayload(Odd.Number, "no object", <<>>),
        WirePayload(BadBase64, "bad body", <<>>),
        WirePayload(BadInner, "bad body", <<>>),
        WirePayload(Wrapped(Truncated), "bad body", <<>>),
        WirePayload(Wrapped(Odd.Huge), "bad body", <<>>),
        WirePayload(Wrapped(Odd.Array), "bad body", <<>>),
        WirePayload(Wrapped(Odd.Null), "null body", <<>>),
        WirePayload(Odd.BodyNumber, "outer", <<>>),
        WirePayload(NoEvidence, "outer", <<>>),
        WirePayload(Wrapped(NoEvidence), "inner", <<>>),
        WirePayload(Wrapped(Wrapped(PongDocument(PongNames[1]))), "inner", <<>>) >>

\* The sequences of raw payloads that the collection loops of the two
\* transports are fed: documents with the pongs of two workers, pongs of
\* different workers and of the same one, payloads that are skipped, and a
\* document whose worker name depends on the order of its map.
Feeds ==
  << << Doc.TwoWorkers >>,
     << Doc.Pong, Doc.TwoWorkers >>,
     << Doc.TwoWorkers, Doc.TwoWorkers >>,
     << PongW1, EnvelopedPongW2 >>,
     << PongW1, HostnameW1, PongW1 >>,
     << Truncated, Doc.Hostname, Doc.Other >>,
     << BadBase64, PongW1, EnvelopedPongW2 >>,
     << Doc.TwoOrders, Doc.NotPong >>,
     << Doc.TwoMatches, BadInner, NoEvidence >> >>

\* The inputs of the runs: a call of CreatePingMessage with its arguments
\* (format 2 is no format of the handler), a response document, a payload
\* on the wire, a call of declareExchanges, a sequence of payloads for the
\* collection loops, or calls of CreateReplyQueue.
CodecInputs ==
  [op : {"create"}, token : {1, 2}, destinations : DestinationLists,
   format : {MessageFormatRaw, MessageFormatEnveloped, 2}, doc : {0}]
  \cup [op : {"document"}, token : {0}, destinations : {<<>>}, format : {0},
        doc : 1..Len(Documents)]
  \cup [op : {"payload"}, token : {0}, destinations : {<<>>}, format : {0},
        doc : 1..Len(WireInputs)]
  \cup [op : {"declare"}, token : {0}, destinations : {<<>>}, format : {0},
        doc : {0}]
  \cup [op : {"collect"}, token : {0}, destinations : {<<>>}, format : {0},
        doc : 1..Len(Feeds)]
  \cup [op : {"queue"}, token : {0}, destinations : {<<>>}, format : {0},
        doc : {0}]

\* ParseWorkerResponse was applied to the input payload and gave a document.
Parsed ==
  \E i \in 1..Len(codecOut) :
    codecOut[i].f = "ParseWorkerResponse" /\ ~codecOut[i].v.err

\* The response that ValidateResponse and ExtractWorkerName are applied to:
\* the input document, or what ParseWorkerResponse made of the input payload.
Response ==
  IF codecIn.op = "document" THEN DocumentMaps[codecIn.doc]
  ELSE ParseWorkerResponse(WireInputs[codecIn.doc].data).m

\* ParseWorkerResponse is applied to the input payload.
ApplyParseWorkerResponse ==
  /\ codecIn.op = "payload"
  /\ Len(codecOut) < MaxApplications
  /\ codecOut' = Append(codecOut,
       [f |-> "ParseWorkerResponse",
        v |-> ParseWorkerResponse(WireInputs[codecIn.doc].data)])
  /\ UNCHANGED << brokerVars, probe, concCalls, concBroker, codecIn, configVars >>

\* CreatePingMessage is applied to the input.
ApplyCreatePingMessage ==
  /\ codecIn.op = "create"
  /\ Len(codecOut) < MaxApplications
  /\ \E ticket \in Uuids, deliveryTag \in Uuids :
       codecOut' = Append(codecOut,
         [f |-> "CreatePingMessage",
          v |-> PingData(CreatePingMessage(codecIn.token, codecIn.destinations,
                                           codecIn.format),
                         ticket, deliveryTag, now)])
  /\ UNCHANGED << brokerVars, probe, concCalls, concBroker, codecIn, configVars >>

\* ExtractWorkerName is applied to the response.
ApplyExtractWorkerName ==
  /\ codecIn.op = "document" \/ (codecIn.op = "payload" /\ Parsed)
  /\ Len(codecOut) < MaxApplications
  /\ \E name \in ExtractWorkerName(Response) :
       codecOut' = Append(codecOut, [f |-> "ExtractWorkerName", v |-> name])
  /\ UNCHANGED << brokerVars, probe, concCalls, concBroker, codecIn, configVars >>

\* ValidateResponse is applied to the response.
ApplyValidateResponse ==
  /\ codecIn.op = "document" \/ (codecIn.op = "payload" /\ Parsed)
  /\ Len(codecOut) < MaxApplications
  /\ \E valid \in ValidateResponse(Response) :
       codecOut' = Append(codecOut, [f |-> "ValidateResponse", v |-> valid])
  /\ UNCHANGED << brokerVars, probe, concCalls, concBroker, codecIn, configVars >>

\* The outcomes that the declarations of one exchange can have.
DeclareOutcomes == [passive : BOOLEAN, active : BOOLEAN]

\* declareExchanges is called once, the broker deciding the outcome of each
\* declaration.
ApplyDeclareExchanges ==
  /\ codecIn.op = "declare"
  /\ codecOut = <<>>
  /\ \E outcomes \in [ExchangeNames -> DeclareOutcomes] :
       codecOut' = << [f |-> "declareExchanges",
                       v |-> [outcomes |-> outcomes,
                              made |-> DeclareExchangesWith(outcomes)]] >>
  /\ UNCHANGED << brokerVars, probe, concCalls, concBroker, codecIn, configVars >>

\* The result maps of the two loops before the payload at position i of
\* the feed: empty at first (responses := make(map[string]PingResponse)).
Collected2(out, i) ==
  IF i = 1 THEN [redis |-> EmptyMap, amqp |-> EmptyMap]
  ELSE [redis |-> out[i - 1].v.redis, amqp |-> out[i - 1].v.amqp]

\* The next payload of the feed is processed by the body of the Redis loop
\* and by the body of the AMQP loop, each on its own result map.
ApplyCollect ==
  /\ codecIn.op = "collect"
  /\ Len(codecOut) < MaxApplications
  /\ Len(codecOut) < Len(Feeds[codecIn.doc])
  /\ LET i == Len(codecOut) + 1
         response == ParseWorkerResponse(Feeds[codecIn.doc][i])
         before == Collected2(codecOut, i)
     IN  \E r \in RedisCollect(before.redis, response, now),
            a \in AMQPCollect(before.amqp, response, now) :
           codecOut' = Append(codecOut,
             [f |-> "Collect",
              v |-> [redis |-> r.m, redisName |-> r.w,
                     amqp |-> a.m, amqpName |-> a.w]])
  /\ UNCHANGED << brokerVars, probe, concCalls, concBroker, codecIn, configVars >>

\* CreateReplyQueue is called once more: used holds the tokens of the calls
\* before.
ApplyCreateReplyQueue ==
  /\ codecIn.op = "queue"
  /\ Len(codecOut) < MaxApplications
  /\ codecOut' = Append(codecOut,
       [f |-> "CreateReplyQueue",
        v |-> CreateReplyQueue({codecOut[i].v : i \in 1..Len(codecOut)})])
  /\ UNCHANGED << brokerVars, probe, concCalls, concBroker, codecIn, configVars >>

InitCodec ==
  /\ InitBroker
  /\ transport = "redis"
  /\ timeout = MaxTimeout
  /\ codecIn \in CodecInputs
  /\ codecOut = <<>>
  /\ NotConfigured

NextCodec ==
  \/ ApplyCreatePingMessage
  \/ ApplyParseWorkerResponse
  \/ ApplyDeclareExchanges
  \/ ApplyExtractWorkerName
  \/ ApplyValidateResponse
  \/ ApplyCollect
  \/ ApplyCreateReplyQueue

SpecCodec == InitCodec /\ [][NextCodec]_vars

(***************************************************************************)
(* Connect, Health and Close outside of a Ping call                        *)
(***************************************************************************)

\* The number of Health calls of a run.
MaxProbes == 2

\* RedisBroker.Health(ctx) with a context that is cancelled or not: the
\* client refuses to send the probe on a cancelled context.
RedisHealthCtx(cancelled) ==
  IF rClient # "nil" /\ cancelled THEN "probe failed" ELSE RedisHealth

\* A call of RedisBroker.Health(ctx)
RedisHealthCall ==
  /\ transport = "redis"
  /\ probe.n < MaxProbes
  /\ \E cancelled \in BOOLEAN :
       probe' = [n |-> probe.n + 1, err |-> RedisHealthCtx(cancelled),
                 cancelled |-> cancelled]
  /\ UNCHANGED << brokerVars, concCalls, concBroker, codecIn, codecOut,
                  configVars >>

\* A call of AMQPBroker.Health(ctx)
AMQPHealthCall ==
  /\ transport = "amqp"
  /\ probe.n < MaxProbes
  /\ \E cancelled \in BOOLEAN :
       probe' = [n |-> probe.n + 1, err |-> AMQPHealth(aConnection, aChannel),
                 cancelled |-> cancelled]
  /\ UNCHANGED << brokerVars, concCalls, concBroker, codecIn, codecOut,
                  configVars >>

\* The AMQP connection is lost while no call is running: the library marks
\* the connection and its channel closed.  While Connect waits for its
\* channel, the channel of the broker is one of an earlier connection, and
\* stays as it is; so it does when the connection is one whose handshake
\* failed, which has no channel and no queue.
AMQPConnectionLost ==
  /\ transport = "amqp"
  /\ pc = "idle"
  /\ aConnection \in {"open", "unopened"}
  /\ aConnection' = "closed"
  /\ IF aConnection = "open" /\ lifecyclePc # "channel"
     THEN /\ aChannel' = IF aChannel = "open" THEN "closed" ELSE aChannel
          /\ queues' = {}
          /\ queueBindings' = {}
          /\ consumers' = {}
          /\ msgsClosed' = TRUE
     ELSE UNCHANGED << aChannel, queues, queueBindings, consumers,
                       msgsClosed >>
  /\ UNCHANGED << constVars, now, brokerUp, ctxDone, redisVars, msgs,
                  timerAt, timerC, callVars, ret >>

InitLifecycle ==
  /\ Init
  /\ timeout = MaxTimeout
  /\ asyncTimerChan = FALSE

NextLifecycle ==
  \/ RedisConnect
  \/ RedisHealthCall
  \/ RedisClose
  \/ RedisBrokerFlip
  \/ AMQPConnect
  \/ AMQPConnectChannel
  \/ AMQPConnectRelease
  \/ AMQPConnectDeclare
  \/ AMQPConnectHealth
  \/ AMQPConnectClose
  \/ AMQPConnectCloseConnection
  \/ AMQPHealthCall
  \/ AMQPClose
  \/ AMQPCloseConnection
  \/ AMQPConnectionLost

SpecLifecycle == InitLifecycle /\ [][NextLifecycle]_vars

(***************************************************************************)
(* The expiry of the ping against the collection window                    *)
(***************************************************************************)

\* The longest timeout of these runs, in seconds: one second more than the
\* expiry that CreatePingMessage gives the envelope.
MaxWindowSeconds == 11

\* The timeouts of these runs, in ticks: the whole seconds up to the longest
\* one, and the default of 1.5 seconds.
WindowTimeouts ==
  { k * TicksPerSecond : k \in 1..MaxWindowSeconds }
    \cup { (3 * TicksPerSecond) \div 2 }

\* The ticks at which the call starts: at a whole second, in the middle of
\* one and one tick before the next.
WindowStarts == {0, TicksPerSecond \div 2, TicksPerSecond - 1}

\* RedisBroker.Ping up to the publish, with the bytes of the ping message
\* kept: the nil check, the reply token and CreatePingMessage at the clock of
\* the call.
WindowPing ==
  /\ transport = "redis"
  /\ pc = "idle"
  /\ codecOut = <<>>
  /\ \E destinations \in Destinations, ticket \in Uuids, deliveryTag \in Uuids :
       IF rClient = "nil"
       THEN /\ Returned(TRUE, EmptyMap, "not initialized")
            /\ UNCHANGED << replyTo, startedAt, sent, written, lastStep,
                            responses, codecOut >>
       ELSE /\ replyTo' = CreateReplyQueue(TokensInUse)
            /\ startedAt' = now
            /\ sent' = 0
            /\ written' = EmptyMap
            /\ lastStep' = "none"
            /\ responses' = EmptyMap
            /\ codecOut' =
                 << [f |-> "CreatePingMessage",
                     v |-> PingData(CreatePingMessage(replyTo', destinations,
                                                      MessageFormatEnveloped),
                                    ticket, deliveryTag, now)] >>
            /\ pc' = "publish"
            /\ UNCHANGED ret
  /\ UNCHANGED << transport, timeout, asyncTimerChan, concCalls, concBroker,
                  probe, codecIn, configVars, now, brokerUp, ctxDone,
                  redisVars, amqpVars, lifecyclePc, deadline, sinceMsg >>

InitWindow ==
  /\ transport = "redis"
  /\ timeout \in WindowTimeouts
  /\ asyncTimerChan = FALSE
  /\ now \in WindowStarts
  /\ brokerUp = TRUE
  /\ ctxDone = FALSE
  /\ rClient = "nil"
  /\ probe = NoProbe
  /\ published = {}
  /\ bindingSet = {}
  /\ lists = EmptyMap
  /\ aConnection = "nil"
  /\ aChannel = "nil"
  /\ lifecyclePc = "idle"
  /\ queues = {}
  /\ queueBindings = {}
  /\ consumers = {}
  /\ msgs = <<>>
  /\ msgsClosed = FALSE
  /\ pc = "idle"
  /\ replyTo = 0
  /\ deadline = 0
  /\ responses = EmptyMap
  /\ brpopUntil = 0
  /\ timerAt = -1
  /\ timerC = FALSE
  /\ ret = NoReturn
  /\ startedAt = -1
  /\ sent = 0
  /\ written = EmptyMap
  /\ lastStep = "none"
  /\ sinceMsg = 0
  /\ concCalls = [c \in Calls |-> IdleCall]
  /\ concBroker = IdleBroker
  /\ codecIn = NoInput
  /\ codecOut = <<>>
  /\ NotConfigured

NextWindow ==
  \/ RedisConnect
  \/ WindowPing
  \/ RedisPublish
  \/ RedisSAdd
  \/ RedisSleep

SpecWindow == InitWindow /\ [][NextWindow]_vars

(***************************************************************************)
(* The configuration (internal/config/config.go, initConfig of cmd)        *)
(***************************************************************************)

\* The letters, lower and upper case.
LowerLetters == { Ascii[i] : i \in 66..91 }

UpperLetters == { Ascii[i] : i \in 34..59 }

Letters == LowerLetters \cup UpperLetters

\* strings.ToLower(s) on ASCII text.
ToLower(s) ==
  [i \in 1..Len(s) |->
     IF s[i] \in UpperLetters THEN Ascii[CharCode(s[i]) + 1] ELSE s[i]]

\* strings.Index(s, c) for one character, counted from 1 (0: not there).
Index(s, c) ==
  IF \E i \in 1..Len(s) : s[i] = c
  THEN CHOOSE i \in 1..Len(s) : s[i] = c /\ \A j \in 1..(i - 1) : s[j] # c
  ELSE 0

\* strings.LastIndex(s, c) for one character, counted from 1 (0: not there).
LastIndex(s, c) ==
  IF \E i \in 1..Len(s) : s[i] = c
  THEN CHOOSE i \in 1..Len(s) : s[i] = c /\ \A j \in (i + 1)..Len(s) : s[j] # c
  ELSE 0

\* The text before the first c (the whole text when there is none), and
\* the text after it.
Before(s, c) == IF Index(s, c) = 0 THEN s ELSE SubSeq(s, 1, Index(s, c) - 1)

After(s, c) == IF Index(s, c) = 0 THEN <<>> ELSE SubSeq(s, Index(s, c) + 1, Len(s))

\* strings.HasPrefix(s, prefix)
HasPrefix(s, prefix) ==
  Len(s) >= Len(prefix) /\ SubSeq(s, 1, Len(prefix)) = prefix

\* getScheme of net/url: letters, and after the first character digits, +,
\* - and ., up to a colon are the scheme; a colon at the start is an error;
\* any other character before a colon, or no colon, means no scheme.
GetScheme(rawURL) ==
  LET stops == { i \in 1..Len(rawURL) :
                   \/ rawURL[i] \notin Letters \cup Digits \cup {"+", "-", "."}
                   \/ (i = 1 /\ rawURL[i] \notin Letters) }
  IN  IF stops = {} THEN [err |-> FALSE, scheme |-> <<>>, rest |-> rawURL]
      ELSE LET i == CHOOSE k \in stops : \A j \in stops : k <= j
           IN  IF rawURL[i] # ":"
               THEN [err |-> FALSE, scheme |-> <<>>, rest |-> rawURL]
               ELSE IF i = 1
               THEN [err |-> TRUE, scheme |-> <<>>, rest |-> <<>>]
               ELSE [err |-> FALSE, scheme |-> SubSeq(rawURL, 1, i - 1),
                     rest |-> SubSeq(rawURL, i + 1, Len(rawURL))]

\* validOptionalPort of net/url: nothing, or a colon and digits only.
ValidOptionalPort(port) ==
  port = <<>> \/ (port[1] = ":" /\ \A i \in 2..Len(port) : port[i] \in Digits)

\* The characters that net/url takes in a host name as they are.
HostChars ==
  Letters \cup Digits
    \cup {"!", "$", "&", "'", "(", ")", "*", "+", ",", ";", "=", ":", "[", "]",
          "<", ">", "\"", "-", "_", ".", "~"}

\* The characters that validUserinfo of net/url accepts.
UserinfoChars ==
  Letters \cup Digits
    \cup {"-", ".", "_", ":", "~", "!", "$", "&", "'", "(", ")", "*", "+", ",",
          ";", "=", "%", "@"}

\* strings.Index(s, sub), counted from 1 (0: not there).
IndexText(s, sub) ==
  IF Contains(s, sub)
  THEN CHOOSE i \in 1..(Len(s) - Len(sub) + 1) :
         /\ SubSeq(s, i, i + Len(sub) - 1) = sub
         /\ \A j \in 1..(i - 1) : SubSeq(s, j, j + Len(sub) - 1) # sub
  ELSE 0

StrPercent25 == <<"%", "2", "5">>

\* unescape of net/url, its error alone: every % must be followed by two
\* hexadecimal digits.  In a host (mode "host") an escape must be %25 or
\* stand for a byte from 0x80 on, and every other ASCII character must be
\* one of a host name; in a zone (mode "zone") an escape must be %25, a
\* space or a character of a host name.  Every other mode (path, fragment,
\* user and password) is "any".  TRUE: an error.
UnescapeFails(s, mode) ==
  \E i \in 1..Len(s) :
    IF s[i] = "%"
    THEN \/ i + 2 > Len(s)
         \/ HexValue(s[i + 1]) < 0
         \/ HexValue(s[i + 2]) < 0
         \/ /\ mode = "host"
            /\ HexValue(s[i + 1]) < 8
            /\ SubSeq(s, i, i + 2) # StrPercent25
         \/ /\ mode = "zone"
            /\ SubSeq(s, i, i + 2) # StrPercent25
            /\ ByteToChar(HexValue(s[i + 1]) * 16 + HexValue(s[i + 2]))
                 \notin HostChars \cup {" "}
    ELSE /\ mode \in {"host", "zone"}
         /\ s[i] \notin HighChars
         /\ s[i] \notin HostChars

\* strings.Split(s, sep) for a separator of one character.
RECURSIVE Split(_, _)
Split(s, c) ==
  IF Index(s, c) = 0 THEN << s >>
  ELSE << Before(s, c) >> \o Split(After(s, c), c)

\* The number that a text of digits writes.
RECURSIVE TextInt(_)
TextInt(l) ==
  IF l = <<>> THEN 0
  ELSE 10 * TextInt(SubSeq(l, 1, Len(l) - 1)) + (CharCode(l[Len(l)]) - 48)

\* unescape of net/url, its text, for a text that it takes: every % and
\* the two hexadecimal digits after it become the byte that they write.
UnescapeKept(s) ==
  { i \in 1..Len(s) :
      /\ ~(i > 1 /\ s[i - 1] = "%")
      /\ ~(i > 2 /\ s[i - 2] = "%") }

UnescapeAt(s, i) ==
  IF s[i] = "%"
  THEN ByteToChar(HexValue(s[i + 1]) * 16 + HexValue(s[i + 2]))
  ELSE s[i]

Unescape(s) ==
  [k \in 1..Cardinality(UnescapeKept(s)) |->
     UnescapeAt(s, CHOOSE i \in UnescapeKept(s) :
                     Cardinality({j \in UnescapeKept(s) : j <= i}) = k)]

\* A field of parseIPv4Fields of net/netip: one to three digits, without
\* a zero before another digit, of 255 at most.  TRUE: an error.
IPv4FieldFails(field) ==
  \/ field = <<>>
  \/ \E i \in 1..Len(field) : field[i] \notin Digits
  \/ Len(field) > 3
  \/ (Len(field) > 1 /\ field[1] = "0")
  \/ TextInt(field) > 255

\* parseIPv4Fields of net/netip on the text s: four fields with points
\* between them.  TRUE: an error.
IPv4FieldsFail(fields) ==
  \/ Len(fields) # 4
  \/ \E k \in 1..Len(fields) : IPv4FieldFails(fields[k])

ParseIPv4Fails(s) == IPv4FieldsFail(Split(s, "."))

\* The number of hexadecimal digits of s from position j on.
HexRun(s, j) ==
  IF \E k \in j..Len(s) : HexValue(s[k]) < 0
  THEN (CHOOSE k \in j..Len(s) :
          HexValue(s[k]) < 0 /\ \A l \in j..(k - 1) : HexValue(s[l]) >= 0) - j
  ELSE Len(s) - j + 1

\* The end of parseIPv6 of net/netip: all of the text must be used, and
\* the i bytes filled must be 16, or fewer with an ellipsis (::).  TRUE:
\* an error.
ParseIPv6End(garbage, i, ellipsis) ==
  \/ garbage
  \/ (i < 16 /\ ~ellipsis)
  \/ (i >= 16 /\ ellipsis)

\* What parseIPv6 refuses in the group of off hexadecimal digits at
\* position j of s, i bytes being filled: no digit or more than 4; before
\* a point, a place other than the last four bytes, or fields that are
\* not those of an IPv4 address; then everything but a colon, a colon at
\* the end, and a second ellipsis.
ParseIPv6GroupFails(s, j, i, ellipsis, off) ==
  \/ off = 0
  \/ off > 4
  \/ /\ j + off <= Len(s)
     /\ IF s[j + off] = "."
        THEN \/ (~ellipsis /\ i # 12)
             \/ i + 4 > 16
             \/ ParseIPv4Fails(SubSeq(s, j, Len(s)))
        ELSE \/ s[j + off] # ":"
             \/ j + off = Len(s)
             \/ (s[j + off + 1] = ":" /\ ellipsis)

RECURSIVE ParseIPv6Groups(_, _, _, _)
\* The loop of parseIPv6 of net/netip over the groups of s from position
\* j on: each is one to four hexadecimal digits and fills two bytes, and
\* the last may be an IPv4 address, which fills four.  TRUE: an error.
ParseIPv6Group(s, j, i, ellipsis, off) ==
  IF ParseIPv6GroupFails(s, j, i, ellipsis, off) THEN TRUE
  ELSE IF j + off > Len(s) THEN ParseIPv6End(FALSE, i + 2, ellipsis)
  ELSE IF s[j + off] = "." THEN ParseIPv6End(FALSE, i + 4, ellipsis)
  ELSE IF s[j + off + 1] # ":"
  THEN ParseIPv6Groups(s, j + off + 1, i + 2, ellipsis)
  ELSE IF j + off + 1 = Len(s) THEN ParseIPv6End(FALSE, i + 2, TRUE)
  ELSE ParseIPv6Groups(s, j + off + 2, i + 2, TRUE)

ParseIPv6Groups(s, j, i, ellipsis) ==
  IF i >= 16 THEN ParseIPv6End(j <= Len(s), i, ellipsis)
  ELSE ParseIPv6Group(s, j, i, ellipsis, HexRun(s, j))

\* parseIPv6 of net/netip on the address s without its zone: an ellipsis
\* may come first, and may be all of it.  TRUE: an error.
ParseIPv6AddressFails(s) ==
  IF HasPrefix(s, <<":", ":">>)
  THEN Len(s) > 2 /\ ParseIPv6Groups(s, 3, 0, TRUE)
  ELSE ParseIPv6Groups(s, 1, 0, FALSE)

\* parseIPv6 of net/netip: the zone after the first % must not be empty.
\* TRUE: an error.
ParseIPv6Fails(in) ==
  IF Index(in, "%") # 0
  THEN \/ Index(in, "%") = Len(in)
       \/ ParseIPv6AddressFails(SubSeq(in, 1, Index(in, "%") - 1))
  ELSE ParseIPv6AddressFails(in)

\* netip.ParseAddr(s): the first point, colon or percent sign of s says
\* what s is taken for: an IPv4 address, an IPv6 address, or an IPv6 zone
\* without its address.  err: it returns an error; is4: Addr.Is4().
ParseAddrAt(s, first) ==
  IF first = 0 \/ s[first] = "%" THEN [err |-> TRUE, is4 |-> FALSE]
  ELSE IF s[first] = "." THEN [err |-> ParseIPv4Fails(s), is4 |-> TRUE]
  ELSE [err |-> ParseIPv6Fails(s), is4 |-> FALSE]

ParseAddr(s) ==
  ParseAddrAt(s, IF \E i \in 1..Len(s) : s[i] \in {".", ":", "%"}
                 THEN CHOOSE i \in 1..Len(s) :
                        /\ s[i] \in {".", ":", "%"}
                        /\ \A j \in 1..(i - 1) : s[j] \notin {".", ":", "%"}
                 ELSE 0)

\* parseHost of net/url on the text between the last [ and the last ] of
\* a host: from %25 on it is a zone, which may hold more escapes than the
\* address before it, and what the two unescape to must be an IPv6
\* address.  TRUE: an error.
ParseIPLiteralFails(unescapedHostname) ==
  ParseAddr(unescapedHostname).err \/ ParseAddr(unescapedHostname).is4

ParseHostnameFails(hostname, zoneIdx) ==
  IF zoneIdx # 0
  THEN \/ UnescapeFails(SubSeq(hostname, 1, zoneIdx - 1), "host")
       \/ UnescapeFails(SubSeq(hostname, zoneIdx, Len(hostname)), "zone")
       \/ ParseIPLiteralFails(
            Unescape(SubSeq(hostname, 1, zoneIdx - 1))
              \o Unescape(SubSeq(hostname, zoneIdx, Len(hostname))))
  ELSE \/ UnescapeFails(hostname, "host")
       \/ ParseIPLiteralFails(Unescape(hostname))

\* parseHost of net/url (Go 1.24.9 and later).  A host with a [ needs a ]
\* and a valid port after the last one, and between the last [ and the
\* last ] an IPv6 address; every other host has its port after the last
\* colon.  TRUE: an error.
ParseHostFails(host) ==
  IF LastIndex(host, "[") # 0
  THEN \/ LastIndex(host, "]") = 0
       \/ ~ValidOptionalPort(SubSeq(host, LastIndex(host, "]") + 1, Len(host)))
       \/ ParseHostnameFails(
            SubSeq(host, LastIndex(host, "[") + 1, LastIndex(host, "]") - 1),
            IndexText(SubSeq(host, LastIndex(host, "[") + 1,
                             LastIndex(host, "]") - 1), StrPercent25))
  ELSE \/ (LastIndex(host, ":") # 0
             /\ ~ValidOptionalPort(SubSeq(host, LastIndex(host, ":"), Len(host))))
       \/ UnescapeFails(host, "host")

\* parseAuthority of net/url: the host after the last @, the userinfo
\* before it, which must be made of the characters of validUserinfo and
\* unescape.  TRUE: an error.
ParseAuthorityFails(authority) ==
  LET i == LastIndex(authority, "@") IN
  \/ ParseHostFails(SubSeq(authority, i + 1, Len(authority)))
  \/ (i # 0 /\ \E j \in 1..(i - 1) : authority[j] \notin UserinfoChars)
  \/ (i # 0 /\ UnescapeFails(SubSeq(authority, 1, i - 1), "any"))

\* stringContainsCTLByte of net/url: a byte below 0x20 or the byte 0x7f.
StringContainsCTLByte(s) ==
  \E i \in 1..Len(s) : s[i] \in ControlChars \cup {ByteToChar(127)}

\* parse of net/url, called by url.Parse on the text u before the first #:
\* whether it returns an error, and the scheme of the URL, in lower case.
\* A control character is an error; then come the scheme, the query after
\* ?, and for a rest that starts with // the authority up to the next /;
\* what follows is the path, which setPath unescapes.  A rest without a
\* leading / is opaque after a scheme, and without one its first segment
\* must hold no colon.
UrlParseNoFragment(u) ==
  LET got == GetScheme(u)
      rest == IF got.rest # <<>> /\ got.rest[Len(got.rest)] = "?"
                   /\ Cardinality({i \in 1..Len(got.rest) : got.rest[i] = "?"}) = 1
              THEN SubSeq(got.rest, 1, Len(got.rest) - 1)
              ELSE Before(got.rest, "?")
      hasAuthority == /\ (got.scheme # <<>> \/ ~HasPrefix(rest, <<"/", "/", "/">>))
                      /\ HasPrefix(rest, <<"/", "/">>)
      afterSlashes == SubSeq(rest, 3, Len(rest))
      path == IF ~hasAuthority THEN rest
              ELSE IF Index(afterSlashes, "/") = 0 THEN <<>>
              ELSE SubSeq(afterSlashes, Index(afterSlashes, "/"),
                          Len(afterSlashes))
      Bad == [err |-> TRUE, scheme |-> <<>>]
      Good == [err |-> FALSE, scheme |-> ToLower(got.scheme)]
  IN  IF StringContainsCTLByte(u) THEN Bad
      ELSE IF u = <<"*">> THEN [err |-> FALSE, scheme |-> <<>>]
      ELSE IF got.err THEN Bad
      ELSE IF ~HasPrefix(rest, <<"/">>) /\ got.scheme # <<>> THEN Good
      ELSE IF ~HasPrefix(rest, <<"/">>) /\ Index(Before(rest, "/"), ":") # 0
      THEN Bad
      ELSE IF hasAuthority /\ ParseAuthorityFails(Before(afterSlashes, "/"))
      THEN Bad
      ELSE IF UnescapeFails(path, "any") THEN Bad
      ELSE Good

\* url.Parse(rawURL): the fragment after the first # is cut off and, when
\* the rest parses and the fragment is not empty, unescaped by setFragment.
UrlParse(rawURL) ==
  IF UrlParseNoFragment(Before(rawURL, "#")).err
  THEN [err |-> TRUE, scheme |-> <<>>]
  ELSE IF UnescapeFails(After(rawURL, "#"), "any")
  THEN [err |-> TRUE, scheme |-> <<>>]
  ELSE UrlParseNoFragment(Before(rawURL, "#"))

\* A detection that takes every URL whose text starts with amqp for one of
\* an AMQP broker, parsed or not.
DetectBrokerTypeByPrefix(brokerURL) ==
  IF HasPrefix(ToLower(brokerURL), <<"a", "m", "q", "p">>) THEN "amqp"
  ELSE "redis"

\* DetectBrokerType(brokerURL): "amqp" for a URL that parses with the scheme
\* amqp or amqps, "redis" for everything else.
DetectBrokerType(brokerURL) ==
  IF brokerURL = <<>> THEN "redis"
  ELSE IF UrlParse(brokerURL).err THEN "redis"
  ELSE IF UrlParse(brokerURL).scheme
            \in { <<"a", "m", "q", "p">>, <<"a", "m", "q", "p", "s">> }
  THEN "amqp"
  ELSE "redis"

\* The Go string literals of the configuration, as texts.
ConfigLit ==
  [ json |-> <<"j", "s", "o", "n">>,
    text |-> <<"t", "e", "x", "t">>,
    default_url |->
      <<"r", "e", "d", "i", "s", ":", "/", "/", "l", "o", "c", "a", "l",
        "h", "o", "s", "t", ":", "6", "3", "7", "9", "/", "0">>,
    true |-> <<"t", "r", "u", "e">>,
    one |-> <<"1">>,
    zero |-> <<"0">>,
    ms |-> <<"m", "s">>,
    s |-> <<"s">>,
    m |-> <<"m">>,
    h |-> <<"h">> ]

\* The encodings of the characters that unicode.IsSpace takes for space:
\* the six of ASCII, U+0085, U+00A0, U+1680, U+2000 to U+200A, U+2028,
\* U+2029, U+202F, U+205F and U+3000.
SpaceEncodings ==
  { <<" ">>, <<"\t">>, <<"\n">>, <<"\r">>, <<ByteToChar(11)>>,
    <<ByteToChar(12)>>, BytesText(<<194, 133>>), BytesText(<<194, 160>>),
    BytesText(<<225, 154, 128>>), BytesText(<<226, 128, 168>>),
    BytesText(<<226, 128, 169>>), BytesText(<<226, 128, 175>>),
    BytesText(<<226, 129, 159>>), BytesText(<<227, 128, 128>>) }
    \cup { BytesText(<<226, 128, b>>) : b \in 128..138 }

RECURSIVE TrimLeftSpace(_)
TrimLeftSpace(s) ==
  IF \E n \in 1..3 : n <= Len(s) /\ SubSeq(s, 1, n) \in SpaceEncodings
  THEN TrimLeftSpace(SubSeq(s, 1 + (CHOOSE n \in 1..3 :
                                     n <= Len(s)
                                       /\ SubSeq(s, 1, n) \in SpaceEncodings),
                            Len(s)))
  ELSE s

RECURSIVE TrimRightSpace(_)
TrimRightSpace(s) ==
  IF \E n \in 1..3 :
       n <= Len(s) /\ SubSeq(s, Len(s) - n + 1, Len(s)) \in SpaceEncodings
  THEN TrimRightSpace(SubSeq(s, 1,
         Len(s) - (CHOOSE n \in 1..3 :
                     n <= Len(s)
                       /\ SubSeq(s, Len(s) - n + 1, Len(s)) \in SpaceEncodings)))
  ELSE s

\* strings.TrimSpace(s)
TrimSpace(s) == TrimRightSpace(TrimLeftSpace(s))

\* strconv.Atoi(s): an optional sign and digits, at least one; everything
\* else is a syntax error, and a number beyond the 64 bits of int is a
\* range error.
Atoi(s) ==
  LET signed == s # <<>> /\ s[1] \in {"+", "-"}
      digits == IF signed THEN Tail(s) ELSE s
      minus == signed /\ s[1] = "-"
  IN  IF digits = <<>> \/ \E i \in 1..Len(digits) : digits[i] \notin Digits
      THEN [err |-> TRUE, n |-> GoInt(0)]
      ELSE IF BigLess(IF minus THEN TwoTo63 ELSE MaxInt64,
                      BigOfText(digits, 1, <<>>))
      THEN [err |-> TRUE, n |-> GoInt(0)]
      ELSE [err |-> FALSE, n |-> Duration(minus, BigOfText(digits, 1, <<>>))]

\* A unit of ParseDuration: its count of nanoseconds, and 1<<63 / unit,
\* the greatest number of them that ParseDuration takes.
Unit(nanos) == [nanos |-> nanos, most |-> BigDivide(TwoTo63, nanos).q]

\* unitMap of package time: the units of ParseDuration.  The micro sign
\* is U+00B5 or U+03BC, two bytes each.
UnitMap ==
  (<<"n", "s">> :> Unit(Big(1)))
    @@ (<<"u", "s">> :> Unit(Big(1000)))
    @@ ((BytesText(<<194, 181>>) \o <<"s">>) :> Unit(Big(1000)))
    @@ ((BytesText(<<206, 188>>) \o <<"s">>) :> Unit(Big(1000)))
    @@ (ConfigLit.ms :> Unit(Big(1000000)))
    @@ (ConfigLit.s :> Unit(Big(1000000000)))
    @@ (ConfigLit.m :> Unit(BigTimes(Big(60), Big(1000000000))))
    @@ (ConfigLit.h :> Unit(BigTimes(Big(3600), Big(1000000000))))

\* x * 10 + c - '0', for a digit c
TimesTenPlus(x, c) == BigPlus(BigTimesDigit(x, 10), Big(CharCode(c) - 48))

RECURSIVE LeadingInt(_, _, _)
\* leadingInt of package time: the digits of s from position i on continue
\* the number x; i is the position after them.  A number beyond 1 << 63 is
\* an error.
LeadingInt(s, i, x) ==
  IF i > Len(s) \/ s[i] \notin Digits THEN [err |-> FALSE, x |-> x, i |-> i]
  ELSE IF \/ BigLess(TwoTo63Tenth, x)
          \/ BigLess(TwoTo63, TimesTenPlus(x, s[i]))
  THEN [err |-> TRUE, x |-> <<>>, i |-> i]
  ELSE LeadingInt(s, i + 1, TimesTenPlus(x, s[i]))

RECURSIVE LeadingFraction(_, _, _, _)
\* leadingFraction of package time: the digits of s from position i on
\* continue the number f.x, and f.scale is 10 to the number of digits
\* taken, a float64.  From the digit on that takes x beyond the 63 bits
\* the digits are passed over (overflow).
LeadingFraction(s, i, f, overflow) ==
  IF i > Len(s) \/ s[i] \notin Digits
  THEN [x |-> f.x, scale |-> f.scale, i |-> i]
  ELSE IF \/ overflow
          \/ BigLess(TwoTo63Tenth, f.x)
          \/ BigLess(TwoTo63, TimesTenPlus(f.x, s[i]))
  THEN LeadingFraction(s, i + 1, f, TRUE)
  ELSE LeadingFraction(s, i + 1,
                       [x |-> TimesTenPlus(f.x, s[i]),
                        scale |-> FloatTimes(f.scale, FloatOf(<<10>>))],
                       FALSE)

\* The position of the first digit or point of s from position i on, and
\* the position after s when there is none: the end of a unit.
UnitEnd(s, i) ==
  IF \E j \in i..Len(s) : s[j] \in Digits \cup {"."}
  THEN CHOOSE j \in i..Len(s) :
         /\ s[j] \in Digits \cup {"."}
         /\ \A k \in i..(j - 1) : s[k] \notin Digits \cup {"."}
  ELSE Len(s) + 1

\* uint64(float64(f) * (float64(unit) / scale)): the nanoseconds of the
\* fraction f / scale of a unit.
FractionOf(f, scale, unit) ==
  FloatTruncate(FloatTimes(FloatOf(f),
                           FloatDivide(FloatOf(unit.nanos), scale)))

RECURSIVE ParseDurationGroups(_, _, _)
\* The groups [0-9]*(\.[0-9]*)?[a-z]+ of time.ParseDuration from position
\* i of s on, d being the nanoseconds of the groups before: each group
\* needs a digit before or after its point and a known unit, which is
\* made of the bytes up to the next digit or point.  The sum is a uint64;
\* a group or a sum beyond 1 << 63 is an error.
ParseDurationSum(s, next, d) ==
  IF BigLess(TwoTo63, d) THEN [err |-> TRUE, d |-> <<>>]
  ELSE ParseDurationGroups(s, next, d)

ParseDurationAdd(s, next, d, v) ==
  IF BigLess(TwoTo63, v) THEN [err |-> TRUE, d |-> <<>>]
  ELSE ParseDurationSum(s, next,
         IF BigLess(BigPlus(d, v), TwoTo64) THEN BigPlus(d, v)
         ELSE BigMinus(BigPlus(d, v), TwoTo64))

ParseDurationValue(s, next, d, v, f, scale, unit) ==
  IF BigLess(unit.most, v) THEN [err |-> TRUE, d |-> <<>>]
  ELSE IF f = <<>> THEN ParseDurationAdd(s, next, d, BigTimes(v, unit.nanos))
  ELSE ParseDurationAdd(s, next, d,
                        BigPlus(BigTimes(v, unit.nanos),
                                FractionOf(f, scale, unit)))

ParseDurationUnit(s, i, j, d, v, f, scale) ==
  IF j = i THEN [err |-> TRUE, d |-> <<>>]
  ELSE IF SubSeq(s, i, j - 1) \notin DOMAIN UnitMap
  THEN [err |-> TRUE, d |-> <<>>]
  ELSE ParseDurationValue(s, j, d, v, f, scale, UnitMap[SubSeq(s, i, j - 1)])

ParseDurationFraction(s, i, d, v, pre, fraction) ==
  IF ~pre /\ fraction.i = i THEN [err |-> TRUE, d |-> <<>>]
  ELSE ParseDurationUnit(s, fraction.i, UnitEnd(s, fraction.i), d, v,
                         fraction.x, fraction.scale)

ParseDurationInt(s, i, d, int) ==
  IF int.err THEN [err |-> TRUE, d |-> <<>>]
  ELSE IF int.i <= Len(s) /\ s[int.i] = "."
  THEN ParseDurationFraction(s, int.i + 1, d, int.x, int.i # i,
         LeadingFraction(s, int.i + 1, [x |-> <<>>, scale |-> FloatOf(<<1>>)],
                         FALSE))
  ELSE IF int.i = i THEN [err |-> TRUE, d |-> <<>>]
  ELSE ParseDurationUnit(s, int.i, UnitEnd(s, int.i), d, int.x, <<>>,
                         FloatOf(<<1>>))

ParseDurationGroups(s, i, d) ==
  IF i > Len(s) THEN [err |-> FALSE, d |-> d]
  ELSE IF s[i] \notin Digits \cup {"."} THEN [err |-> TRUE, d |-> <<>>]
  ELSE ParseDurationInt(s, i, d, LeadingInt(s, i, <<>>))

\* The end of time.ParseDuration: the sign of the sum d of the groups.  A
\* sum of 1 << 63 is in the range of a time.Duration with the minus sign
\* only.
ParseDurationSigned(neg, groups) ==
  IF groups.err THEN [err |-> TRUE, d |-> Milliseconds(0)]
  ELSE IF neg THEN [err |-> FALSE, d |-> Duration(TRUE, groups.d)]
  ELSE IF BigLess(MaxInt64, groups.d)
  THEN [err |-> TRUE, d |-> Milliseconds(0)]
  ELSE [err |-> FALSE, d |-> Duration(FALSE, groups.d)]

\* time.ParseDuration(s): an optional sign, then 0 or groups of a number
\* and a unit.
ParseDurationUnsigned(neg, t) ==
  IF t = ConfigLit.zero THEN [err |-> FALSE, d |-> Milliseconds(0)]
  ELSE IF t = <<>> THEN [err |-> TRUE, d |-> Milliseconds(0)]
  ELSE ParseDurationSigned(neg, ParseDurationGroups(t, 1, <<>>))

ParseDuration(s) ==
  IF s # <<>> /\ s[1] \in {"+", "-"}
  THEN ParseDurationUnsigned(s[1] = "-", Tail(s))
  ELSE ParseDurationUnsigned(FALSE, s)

\* getEnvWithDefault(key, defaultValue) in the environment env
GetEnvWithDefault(env, key, defaultValue) ==
  IF env[key] # <<>> THEN env[key] ELSE defaultValue

\* DefaultConfig() in the environment env.
DefaultConfig(env) ==
  [BrokerURL |-> GetEnvWithDefault(env, "BROKER_URL", ConfigLit.default_url),
   BrokerType |->
     DetectBrokerType(GetEnvWithDefault(env, "BROKER_URL",
                                        ConfigLit.default_url)),
   Database |-> GoInt(0),
   Username |-> <<>>,
   Password |-> <<>>,
   Timeout |-> Milliseconds(1500),
   OutputFormat |-> ConfigLit.text,
   Verbose |-> FALSE,
   Destination |-> <<>>,
   MaxWorkers |-> 10,
   RetryAttempts |-> 3]

\* Config.LoadFromEnv() on the configuration c in the environment env: a
\* variable that is set replaces the field; BROKER_DB and BROKER_TIMEOUT do
\* so only when they can be parsed.  It returns no error.
LoadFromEnv(c, env) ==
  [c EXCEPT
     !.BrokerURL = IF env["BROKER_URL"] # <<>> THEN env["BROKER_URL"] ELSE @,
     !.BrokerType = IF env["BROKER_URL"] # <<>>
                    THEN DetectBrokerType(env["BROKER_URL"]) ELSE @,
     !.Username = IF env["BROKER_USERNAME"] # <<>>
                  THEN env["BROKER_USERNAME"] ELSE @,
     !.Password = IF env["BROKER_PASSWORD"] # <<>>
                  THEN env["BROKER_PASSWORD"] ELSE @,
     !.Database = IF env["BROKER_DB"] # <<>> /\ ~Atoi(env["BROKER_DB"]).err
                  THEN Atoi(env["BROKER_DB"]).n ELSE @,
     !.Timeout = IF env["BROKER_TIMEOUT"] # <<>>
                      /\ ~ParseDuration(env["BROKER_TIMEOUT"]).err
                 THEN ParseDuration(env["BROKER_TIMEOUT"]).d ELSE @,
     !.OutputFormat = IF env["OUTPUT_FORMAT"] # <<>>
                      THEN env["OUTPUT_FORMAT"] ELSE @,
     !.Verbose = IF env["VERBOSE"] # <<>>
                 THEN env["VERBOSE"] \in {ConfigLit.true, ConfigLit.one}
                 ELSE @]

\* The destinations of the flag --destination: the parts between the
\* commas, each without the space around it.
SplitDestinations(destination) ==
  [i \in 1..Len(Split(destination, ",")) |->
     TrimSpace(Split(destination, ",")[i])]

\* initConfig, "Override with command line flags", on the configuration c:
\* a flag whose variable holds more than the zero value of its type
\* replaces the field.
OverrideWithFlags(c, f) ==
  [c EXCEPT
     !.BrokerURL = IF f.brokerURL # <<>> THEN f.brokerURL ELSE @,
     !.Timeout = IF Positive(f.timeout) THEN f.timeout ELSE @,
     !.OutputFormat = IF f.format # <<>> THEN f.format ELSE @,
     !.Verbose = IF f.verbose THEN f.verbose ELSE @,
     !.Database = IF Positive(f.database) THEN f.database ELSE @,
     !.Username = IF f.username # <<>> THEN f.username ELSE @,
     !.Password = IF f.password # <<>> THEN f.password ELSE @,
     !.Destination = IF f.destination # <<>>
                     THEN SplitDestinations(f.destination) ELSE @]

\* A validation that takes a timeout of zero.
ValidateZeroTimeout(c) ==
  IF c.BrokerURL = <<>> THEN "broker URL is required"
  ELSE IF UrlParse(c.BrokerURL).err THEN "invalid broker URL format"
  ELSE IF c.BrokerType # "redis" /\ c.BrokerType # "amqp"
  THEN "unsupported broker type"
  ELSE IF c.Timeout.neg THEN "timeout must be positive"
  ELSE IF c.OutputFormat # ConfigLit.json /\ c.OutputFormat # ConfigLit.text
  THEN "output format must be 'json' or 'text'"
  ELSE IF c.MaxWorkers <= 0 THEN "max workers must be positive"
  ELSE "nil"

\* Config.Validate() on the configuration c: the error it returns.
Validate(c) ==
  IF c.BrokerURL = <<>> THEN "broker URL is required"
  ELSE IF UrlParse(c.BrokerURL).err THEN "invalid broker URL format"
  ELSE IF c.BrokerType # "redis" /\ c.BrokerType # "amqp"
  THEN "unsupported broker type"
  ELSE IF ~Positive(c.Timeout) THEN "timeout must be positive"
  ELSE IF c.OutputFormat # ConfigLit.json /\ c.OutputFormat # ConfigLit.text
  THEN "output format must be 'json' or 'text'"
  ELSE IF c.MaxWorkers <= 0 THEN "max workers must be positive"
  ELSE "nil"

\* The broker URLs of the model, as texts: those of TestDetectBrokerType,
\* URLs that do not parse or that hold amqp where it is no scheme, and URLs
\* with percent escapes, hosts in brackets and bytes that are not printable.
Url ==
  [ Redis |->
      <<"r", "e", "d", "i", "s", ":", "/", "/", "l", "o", "c", "a", "l",
        "h", "o", "s", "t", ":", "6", "3", "7", "9", "/", "0">>,
    Rediss |->
      <<"r", "e", "d", "i", "s", "s", ":", "/", "/", "l", "o", "c", "a",
        "l", "h", "o", "s", "t", ":", "6", "3", "8", "0", "/", "0">>,
    Amqp |->
      <<"a", "m", "q", "p", ":", "/", "/", "g", "u", "e", "s", "t", ":",
        "g", "u", "e", "s", "t", "@", "l", "o", "c", "a", "l", "h", "o",
        "s", "t", ":", "5", "6", "7", "2", "/">>,
    Amqps |->
      <<"a", "m", "q", "p", "s", ":", "/", "/", "g", "u", "e", "s", "t",
        ":", "g", "u", "e", "s", "t", "@", "l", "o", "c", "a", "l", "h",
        "o", "s", "t", ":", "5", "6", "7", "1", "/">>,
    Kafka |->
      <<"k", "a", "f", "k", "a", ":", "/", "/", "l", "o", "c", "a", "l",
        "h", "o", "s", "t", ":", "9", "0", "9", "2">>,
    NotAUrl |->
      <<"n", "o", "t", "-", "a", "-", "u", "r", "l">>,
    Upper |->
      <<"A", "M", "Q", "P", ":", "/", "/", "g", "u", "e", "s", "t", ":",
        "g", "u", "e", "s", "t", "@", "l", "o", "c", "a", "l", "h", "o",
        "s", "t", ":", "5", "6", "7", "2", "/">>,
    Mixed |->
      <<"A", "m", "Q", "p", "S", ":", "/", "/", "m", "q">>,
    BadPort |->
      <<"a", "m", "q", "p", ":", "/", "/", "m", "q", ":", "p", "o", "r", "t">>,
    BadHost |->
      <<"a", "m", "q", "p", ":", "/", "/", "m", " ", "q", "/">>,
    BadUser |->
      <<"a", "m", "q", "p", ":", "/", "/", "a", " ", "b", "@", "m", "q", "/">>,
    Control |->
      <<"a", "m", "q", "p", ":", "/", "/", "m", "q", "\t">>,
    ColonFirst |->
      <<":", "a", "m", "q", "p">>,
    NoColon |->
      <<"a", "m", "q", "p">>,
    Opaque |->
      <<"a", "m", "q", "p", ":", "m", "q">>,
    Plus |->
      <<"a", "m", "q", "p", "+", "t", "l", "s", ":", "/", "/", "m", "q">>,
    DigitFirst |->
      <<"1", "a", "m", "q", "p", ":", "/", "/", "m", "q">>,
    SpaceFirst |->
      <<" ", "a", "m", "q", "p", ":", "/", "/", "m", "q">>,
    NoScheme |->
      <<"/", "/", "a", "m", "q", "p">>,
    InPath |->
      <<"r", "e", "d", "i", "s", ":", "/", "/", "h", "/", "a", "m", "q",
        "p", ":", "/", "/", "m", "q">>,
    Fragment |->
      <<"a", "m", "q", "p", "s", ":", "/", "/", "m", "q", ":", "5", "6",
        "7", "1", "/", "v", "?", "x", "=", "1", "#", "a", "m", "q", "p">>,
    Star |->
      <<"*">>,
    BadPathEscape |->
      <<"a", "m", "q", "p", ":", "/", "/", "h", "/", "%", "z", "z">>,
    BadFragmentEscape |->
      <<"a", "m", "q", "p", ":", "/", "/", "h", "/", "v", "#", "%", "z", "z">>,
    BadUserEscape |->
      <<"a", "m", "q", "p", ":", "/", "/", "a", "%", "z", "z", "@", "h", "/">>,
    StarBadFragment |->
      <<"*", "#", "%", "z", "z">>,
    OpenBracket |->
      <<"a", "m", "q", "p", ":", "/", "/", "[", ":", ":", "1">>,
    Bracket |->
      <<"a", "m", "q", "p", ":", "/", "/", "[", ":", ":", "1", "]", ":",
         "5", "6", "7", "2", "/">>,
    Zone |->
      <<"a", "m", "q", "p", ":", "/", "/", "[", "f", "e", "8", "0", ":",
         ":", "1", "%", "2", "5", "e", "n", "0", "]", "/">>,
    NotIPv6 |->
      <<"a", "m", "q", "p", ":", "/", "/", "[", "a", "b", "c", "]", "/">>,
    IPv4Literal |->
      <<"a", "m", "q", "p", ":", "/", "/", "[", "1", ".", "2", ".", "3", ".",
        "4", "]", "/">>,
    BadZone |->
      <<"a", "m", "q", "p", ":", "/", "/", "[", "f", "e", "8", "0", ":",
         ":", "1", "%", "2", "5", "e", "%", "2", "f", "n", "]", "/">>,
    PercentHost |->
      <<"a", "m", "q", "p", ":", "/", "/", "%", "2", "5", "/">>,
    LowHostEscape |->
      <<"a", "m", "q", "p", ":", "/", "/", "%", "4", "1", "/">>,
    HighHostEscape |->
      <<"a", "m", "q", "p", ":", "/", "/", "%", "c", "3", "%", "a", "9", "/">>,
    HighPath |->
      <<"a", "m", "q", "p", ":", "/", "/", "m", "q", "/", ByteToChar(195),
         ByteToChar(169)>>,
    Delete |->
      <<"a", "m", "q", "p", ":", "/", "/", "m", "q", "/", ByteToChar(127)>>,
    PathEscape |->
      <<"a", "m", "q", "p", ":", "/", "/", "m", "q", "/", "%", "2", "f", "v">>,
    ShortEscape |->
      <<"a", "m", "q", "p", ":", "/", "/", "m", "q", "/", "%", "2">>,
    Flag |->
      <<"r", "e", "d", "i", "s", ":", "/", "/", "f", "l", "a", "g", ":",
        "6", "3", "7", "9", "/", "1">> ]

\* The other values of the environment and of the flags, as texts.
Val ==
  [ user |->
      <<"t", "e", "s", "t", "u", "s", "e", "r">>,
    pass |->
      <<"t", "e", "s", "t", "p", "a", "s", "s">>,
    flaguser |->
      <<"f", "u">>,
    flagpass |->
      <<"f", "p">>,
    five |->
      <<"5">>,
    invalid |->
      <<"i", "n", "v", "a", "l", "i", "d">>,
    minus |->
      <<"-", "2">>,
    beyond |->
      <<"9", "2", "2", "3", "3", "7", "2", "0", "3", "6", "8", "5", "4", "7",
        "7", "5", "8", "0", "8">>,
    fiveSeconds |->
      <<"5", "s">>,
    mixed |->
      <<"1", "m", "0", ".", "5", "s">>,
    noUnit |->
      <<"5">>,
    halves |->
      <<"0", ".", "0", "0", "0", "5", "s", "0", ".", "0", "0", "0", "5", "s">>,
    micros |->
      <<"1", "0", "0", ByteToChar(194), ByteToChar(181), "s">>,
    thousandth |->
      <<"0", ".", "0", "0", "1", "0", "0", "0", "0", "0", "0", "0", "0", "0",
        "0", "0", "u", "s">>,
    hours |->
      <<"2", "5", "6", "2", "0", "4", "8", "h">>,
    false |->
      <<"f", "a", "l", "s", "e">>,
    xml |->
      <<"x", "m", "l">>,
    destinations |->
      <<"w", "1", "@", "h", ",", " ", "w", "2", "@", "h">> ]

\* The greatest number of variables and flags that a run sets.
MaxConfigured == 3

\* The environments of the runs: each variable unset, set to a value that
\* can be used, or set to one that cannot.
Environments ==
  [BROKER_URL : {<<>>, Url.Amqp, Url.BadPort},
   BROKER_USERNAME : {<<>>, Val.user},
   BROKER_PASSWORD : {<<>>, Val.pass},
   BROKER_DB : {<<>>, Val.five, Val.invalid, Val.minus, Val.beyond},
   BROKER_TIMEOUT : {<<>>, Val.fiveSeconds, Val.mixed, Val.invalid, Val.noUnit,
                     Val.halves, Val.micros, Val.thousandth, Val.hours},
   OUTPUT_FORMAT : {<<>>, ConfigLit.json, Val.xml},
   VERBOSE : {<<>>, ConfigLit.true, ConfigLit.one, Val.false}]

\* The flags of the runs: each not given, given with a value, or given with
\* the zero value of its type or less (which leaves the variable of the
\* flag as if it was not given).
FlagSets ==
  [brokerURL : {<<>>, Url.Flag, Url.Upper},
   timeout : {Milliseconds(0), Milliseconds(2000), Milliseconds(0 - 1000)},
   format : {<<>>, ConfigLit.json, Val.xml},
   verbose : BOOLEAN,
   database : {GoInt(0), GoInt(2), GoInt(0 - 1)},
   username : {<<>>, Val.flaguser},
   password : {<<>>, Val.flagpass},
   destination : {<<>>, Val.destinations}]

\* The number of variables that the environment env sets, and of flags
\* that f gives with more than a zero value.
Configured(env, f) ==
  Cardinality({k \in EnvNames : env[k] # <<>>})
    + Cardinality({k \in DOMAIN f : f[k] # NoFlags[k]})

\* The Config literals that Validate is applied to, as TestConfig_Validate
\* builds them.
ValidateInputs ==
  [BrokerURL : {<<>>, Url.Redis, Url.BadPort, Url.NotAUrl},
   BrokerType : {"redis", "amqp", "kafka", ""},
   Database : {GoInt(0)},
   Username : {<<>>},
   Password : {<<>>},
   Timeout : {Milliseconds(0 - 1000), Milliseconds(0), Milliseconds(1000),
              Duration(FALSE, Big(100000))},
   OutputFormat : {ConfigLit.json, ConfigLit.text, Val.xml, <<>>},
   Verbose : {FALSE},
   Destination : {<<>>},
   MaxWorkers : {0 - 1, 0, 10},
   RetryAttempts : {3}]

\* The URLs that DetectBrokerType is applied to.
Urls == { Url[k] : k \in DOMAIN Url } \cup { <<>> }

\* initConfig up to the validation: the defaults, the environment over
\* them, the flags over both.
InitConfigLayers ==
  /\ initPc = "start"
  /\ codecOut = <<>>
  /\ cfg' = OverrideWithFlags(LoadFromEnv(DefaultConfig(environ), environ),
                              flags)
  /\ initPc' = "validate"
  /\ UNCHANGED << brokerVars, probe, concCalls, concBroker, codecIn, codecOut,
                  environ, flags >>

\* initConfig, the validation: an error ends the process with os.Exit(1).
InitConfigValidate ==
  /\ initPc = "validate"
  /\ initPc' = IF Validate(cfg) = "nil" THEN "done" ELSE "exit"
  /\ UNCHANGED << brokerVars, probe, concCalls, concBroker, codecIn, codecOut,
                  environ, flags, cfg >>

\* DetectBrokerType is applied to a URL.
ApplyDetectBrokerType ==
  /\ initPc = "start"
  /\ codecOut = <<>>
  /\ environ = NoEnv
  /\ flags = NoFlags
  /\ \E brokerURL \in Urls :
       codecOut' = << [f |-> "DetectBrokerType", arg |-> brokerURL,
                       v |-> DetectBrokerType(brokerURL)] >>
  /\ UNCHANGED << brokerVars, probe, concCalls, concBroker, codecIn,
                  configVars >>

\* Validate is applied to a Config literal.
ApplyValidate ==
  /\ initPc = "start"
  /\ codecOut = <<>>
  /\ environ = NoEnv
  /\ flags = NoFlags
  /\ \E c \in ValidateInputs :
       codecOut' = << [f |-> "Validate", arg |-> c, v |-> Validate(c)] >>
  /\ UNCHANGED << brokerVars, probe, concCalls, concBroker, codecIn,
                  configVars >>

InitConfiguration ==
  /\ InitBroker
  /\ transport = "redis"
  /\ timeout = MaxTimeout
  /\ codecIn = NoInput
  /\ codecOut = <<>>
  /\ environ \in Environments
  /\ flags \in FlagSets
  /\ Configured(environ, flags) <= MaxConfigured
  /\ cfg = NilConfig
  /\ initPc = "start"

NextConfiguration ==
  \/ InitConfigLayers
  \/ InitConfigValidate
  \/ ApplyDetectBrokerType
  \/ ApplyValidate

SpecConfiguration == InitConfiguration /\ [][NextConfiguration]_vars

Next ==
  \/ RedisConnect
  \/ RedisClose
  \/ RedisPing
  \/ RedisPublish
  \/ RedisSAdd
  \/ RedisSleep
  \/ RedisLoop
  \/ RedisBRPopWait
  \/ RedisBRPopReturn
  \/ RedisSRem
  \/ RedisDel
  \/ RedisWorkerReply
  \/ RedisBrokerFlip
  \/ AMQPConnect
  \/ AMQPConnectChannel
  \/ AMQPConnectRelease
  \/ AMQPConnectDeclare
  \/ AMQPConnectHealth
  \/ AMQPConnectClose
  \/ AMQPConnectCloseConnection
  \/ AMQPClose
  \/ AMQPCloseConnection
  \/ AMQPPing
  \/ AMQPQueueDeclare
  \/ AMQPQueueBind
  \/ AMQPPublish
  \/ AMQPConsume
  \/ AMQPWait
  \/ AMQPSelectDone
  \/ AMQPSelectDeadline
  \/ AMQPSelectMsg
  \/ AMQPSelectTimer
  \/ AMQPWorkerReply
  \/ AMQPFailure
  \/ AMQPConnectionLost
  \/ Cancel

Spec == Init /\ [][Next]_vars

(***************************************************************************)
(* RedisBroker.Ping to its end, under a fair scheduler                     *)
(***************************************************************************)

\* The timeouts of these runs, in ticks: none at all, the pause alone, a
\* pop without the pause, and the greatest timeout of the other runs: the
\* pause, a pop and a rest.
TerminationTimeouts == {0, SleepTicks, BrpopTicks, MaxTimeout}

InitTermination ==
  /\ transport = "redis"
  /\ timeout \in TerminationTimeouts
  /\ asyncTimerChan = FALSE
  /\ now = 0
  /\ brokerUp = TRUE
  /\ ctxDone = FALSE
  /\ rClient = "nil"
  /\ probe = NoProbe
  /\ published = {}
  /\ bindingSet = {}
  /\ lists = EmptyMap
  /\ aConnection = "nil"
  /\ aChannel = "nil"
  /\ lifecyclePc = "idle"
  /\ queues = {}
  /\ queueBindings = {}
  /\ consumers = {}
  /\ msgs = <<>>
  /\ msgsClosed = FALSE
  /\ pc = "idle"
  /\ replyTo = 0
  /\ deadline = 0
  /\ responses = EmptyMap
  /\ brpopUntil = 0
  /\ timerAt = -1
  /\ timerC = FALSE
  /\ ret = NoReturn
  /\ startedAt = -1
  /\ sent = 0
  /\ written = EmptyMap
  /\ lastStep = "none"
  /\ sinceMsg = 0
  /\ concCalls = [c \in Calls |-> IdleCall]
  /\ concBroker = IdleBroker
  /\ codecIn = NoInput
  /\ codecOut = <<>>
  /\ NotConfigured

\* The statements of a running RedisBroker.Ping, one after the other in the
\* goroutine of the caller; the time that passes inside a BRPOP is one of
\* them.
RedisPingSteps ==
  \/ RedisPublish
  \/ RedisSAdd
  \/ RedisSleep
  \/ RedisLoop
  \/ RedisBRPopWait
  \/ RedisBRPopReturn
  \/ RedisSRem
  \/ RedisDel

NextTermination ==
  \/ RedisConnect
  \/ RedisPing
  \/ RedisPingSteps
  \/ RedisWorkerReply
  \/ RedisBrokerFlip
  \/ Cancel

\* The goroutine of the call keeps running: a command returns, the pause
\* ends, the clock advances while a BRPOP blocks and the BRPOP returns when
\* its wait is over.  Nothing is assumed of the workers, the server and the
\* caller's cancellation.
SpecTermination ==
  InitTermination /\ [][NextTermination]_vars /\ WF_vars(RedisPingSteps)

(***************************************************************************)
(* Properties of Ping                                                      *)
(***************************************************************************)

\* Ping has returned and nothing was called since.
PingReturned == pc = "done" /\ ret.op = "Ping"

\* The transport was never connected: its client, or its connection or
\* channel, is nil.
NotInitialized ==
  IF transport = "redis" THEN rClient = "nil"
  ELSE aConnection = "nil" \/ aChannel = "nil"

\* The collection phase of the call was reached.
Collected == lastStep # "none"

\* C1: when RedisBroker.Ping returns after the client was initialised (the
\* server being reachable at that moment), the binding set no longer holds
\* the member of this call and none of its four reply keys exists.
C1_CleanupOnEveryReturn ==
  (transport = "redis" /\ PingReturned /\ ret.err # "not initialized"
     /\ brokerUp)
  => /\ BindingKey(replyTo) \notin bindingSet
     /\ \A i \in 1..4 : ReplyQueues(replyTo)[i] \notin DOMAIN lists

\* C2: when AMQPBroker.Ping returns after its nil check, the consumer of
\* the call is no longer subscribed and its reply queue no longer exists,
\* Close not having been called.
C2_ReplyChannelDestroyed ==
  (transport = "amqp" /\ PingReturned /\ ret.err # "not initialized")
  => /\ replyTo \notin consumers
     /\ replyTo \notin queues

\* C3: when the collection loop ends on a connectivity error (a BRPOP error
\* other than redis.Nil, a closed delivery stream), Ping returns the
\* responses collected with a nil error if there is one, and a non-nil
\* error if there is none.
C3_ConnectivityErrorInLoop ==
  (PingReturned /\ lastStep \in {"error", "closed"})
  => /\ ~ret.nilMap
     /\ ret.m = responses
     /\ (responses # EmptyMap => ret.err = "nil")
     /\ (responses = EmptyMap => ret.err # "nil")

\* C4: Ping on a transport that was never connected returns a nil map and
\* the error "not initialized", and performs no broker operation: nothing
\* is published, no binding is registered, no queue is declared, bound or
\* consumed from, and no step of the call other than the return is taken.
C4_NotInitialized ==
  (NotInitialized /\ pc # "idle")
  => /\ pc = "done"
     /\ (ret.op = "Ping" => ret.nilMap /\ ret.err = "not initialized")
     /\ published = {}
     /\ bindingSet = {}
     /\ lists = EmptyMap
     /\ queues = {}
     /\ queueBindings = {}
     /\ consumers = {}

\* Ping returned "not initialized" on an AMQP transport whose connection
\* was made and whose channel was not.
C4_Witness ==
  /\ PingReturned
  /\ ret.err = "not initialized"
  /\ ret.nilMap
  /\ transport = "amqp"
  /\ aConnection # "nil"

\* C5: a Ping that fails in its setup phase returns a nil map and a non-nil
\* error, and has collected nothing; collection starts only after the ping
\* was published; a Ping that reaches its deadline with no reply returns a
\* non-nil empty map and a nil error; so the map is nil exactly when the
\* setup failed.
C5_SetupFailureOrEmptyResult ==
  /\ (PingReturned /\ ~Collected)
     => (ret.nilMap /\ ret.err # "nil" /\ responses = EmptyMap
         /\ written = EmptyMap)
  /\ (pc \in {"sleep", "loop", "brpop", "srem", "del", "select"})
     => replyTo \in published
  /\ (PingReturned /\ lastStep \in {"deadline", "remaining"}
        /\ responses = EmptyMap)
     => (~ret.nilMap /\ ret.m = EmptyMap /\ ret.err = "nil")
  /\ PingReturned => (ret.nilMap <=> ~Collected)

\* The binding registration of a published ping failed, and Ping returned.
C5_Witness ==
  /\ PingReturned
  /\ ret.err = "register binding"
  /\ replyTo \in published
  /\ ret.nilMap

\* C6: when no message arrives and the call is not ended by cancellation,
\* a Ping that reached its collection phase returns a non-nil empty map
\* and a nil error; and no call is still running later than its start plus
\* the timeout plus the length of the pause.
C6_DeadlineInvariant ==
  /\ (PingReturned /\ Collected /\ lastStep # "cancel" /\ sent = 0)
     => /\ ret = Return("Ping", FALSE, EmptyMap, "nil")
        /\ now <= startedAt + timeout + SleepTicks
  /\ (pc \notin {"idle", "done"})
     => now <= startedAt + timeout + SleepTicks

\* A Ping with the greatest timeout to which no message came has returned
\* at its deadline.
C6_Witness ==
  /\ PingReturned
  /\ sent = 0
  /\ lastStep \in {"deadline", "remaining"}
  /\ timeout = MaxTimeout
  /\ now >= startedAt + timeout - SleepTicks
  /\ ~ret.nilMap

\* C7: the result map holds exactly one entry for each worker name that a
\* processed payload was upserted under, with the timestamp of the last of
\* these upserts; and it is the map Ping returns.
C7_LastWriteWins ==
  /\ DOMAIN responses = DOMAIN written
  /\ \A w \in DOMAIN responses : responses[w].Timestamp = written[w].sec
  /\ (PingReturned /\ ~ret.nilMap) => ret.m = responses

\* Two payloads of one worker were processed in different seconds, and the
\* map returned holds the second of the last.
C7_Witness ==
  /\ PingReturned
  /\ \E w \in DOMAIN ret.m :
       /\ written[w].n >= 2
       /\ written[w].first = 0
       /\ ret.m[w].Timestamp = 1

\* The payloads that cannot be decoded, that fail validation or that yield
\* no worker name, whatever the order in which Go ranges over their maps.
Unusable ==
  {id \in PayloadIds :
     \/ Decoded[id].err
     \/ ValidateResponse(Decoded[id].m) = {FALSE}
     \/ ExtractWorkerName(Decoded[id].m) = {<<>>}}

\* The step pops a payload from the reply lists of the call.
RedisPops ==
  /\ pc = "brpop"
  /\ NonEmptyQueues(replyTo) # {}
  /\ lists' = Popped(PopKey(replyTo))

\* The step receives a message from the delivery stream: the receive of
\* the close, which drops what the stream still held, is not one.
AMQPPops ==
  /\ pc = "select"
  /\ msgs # <<>>
  /\ msgs' = Tail(msgs)
  /\ lastStep' # "closed"

\* C8: a step that processes a payload which cannot be decoded, fails
\* validation or yields no worker name leaves the result map unchanged,
\* and the call is in its collection loop afterwards.
C8_SkipAndContinue ==
  [][ /\ (RedisPops /\ Head(lists[PopKey(replyTo)]) \in Unusable)
         => (responses' = responses /\ pc' = "loop")
      /\ (AMQPPops /\ Head(msgs) \in Unusable)
         => (responses' = responses /\ pc' = "select") ]_vars

\* Two payloads came and both were processed: one was skipped, and the
\* one processed after it was upserted.
C8_Witness ==
  /\ pc \in {"loop", "select"}
  /\ lastStep = "upsert"
  /\ sent = 2
  /\ lists = EmptyMap
  /\ msgs = <<>>
  /\ Cardinality(DOMAIN written) = 1
  /\ \A w \in DOMAIN written : written[w].n = 1

\* Every entry of the map m is under a non-empty key, names its key as the
\* worker and has the status "pong".
WellFormed(m) ==
  \A w \in DOMAIN m :
    /\ w # <<>>
    /\ m[w].WorkerName = w
    /\ m[w].Status = StrPong

\* C9: in every state the result map, and the map Ping returned, has no
\* empty key, and every entry has its key as WorkerName and "pong" as
\* Status.
C9_WellFormedMap == WellFormed(responses) /\ WellFormed(ret.m)

\* Ping returned a map with two workers.
C9_Witness ==
  /\ PingReturned
  /\ Cardinality(DOMAIN ret.m) = 2
  /\ sent = 2

\* C10: AMQPBroker.Ping returns before its deadline, neither cancelled nor
\* on a closed stream, only when the inactivity timer fired a whole period
\* after the last message was received and the map holds a response; and
\* after the timer fired on an empty map the call is still in its loop.
C10_EarlyTermination ==
  /\ (transport = "amqp" /\ PingReturned /\ Collected
        /\ lastStep \notin {"cancel", "closed"} /\ now < deadline)
     => (sinceMsg >= InactivityTicks /\ responses # EmptyMap)
  /\ lastStep = "timer" => (pc = "select" /\ responses = EmptyMap)

\* C11: once the context of a collecting call is cancelled, the call begins
\* no new wait (no BRPOP is issued, no time passes in the select), and a
\* payload received after the cancellation adds nothing to the result map.
C11_Cancellation ==
  [][ /\ (ctxDone /\ pc \in {"loop", "select"})
         => (pc' # "brpop" /\ now' = now)
      /\ (ctxDone /\ (RedisPops \/ AMQPPops)) => responses' = responses ]_vars

\* C12: when Ping returns from its collection phase, for whatever reason
\* and with whatever error, the map it returns is not nil and holds every
\* entry of the result map, each worker that was upserted with the
\* timestamp of its last upsert.
C12_NothingCollectedIsLost ==
  (PingReturned /\ Collected)
  => /\ ~ret.nilMap
     /\ \A w \in DOMAIN responses :
          w \in DOMAIN ret.m /\ ret.m[w] = responses[w]
     /\ \A w \in DOMAIN written :
          w \in DOMAIN ret.m /\ ret.m[w].Timestamp = written[w].sec

\* Ping returned the context's error together with a response it had
\* collected.
C12_Witness ==
  /\ PingReturned
  /\ ret.err = "context"
  /\ ~ret.nilMap
  /\ DOMAIN ret.m # {}

\* C13: when two Ping calls are in flight at once, a worker reply routed to
\* the reply token of one call is never popped or consumed by the other
\* call, so it never produces an entry in the other call's map: every
\* payload a call has taken was addressed to that call's own token, and the
\* token of the other call is not among the addresses it has taken from.
C13_NoCrossTalk ==
  \A a \in Calls, b \in Calls :
    (a # b /\ concCalls[a].tok # 0)
    => /\ concCalls[a].tok \notin concCalls[b].from
       /\ concCalls[b].from \subseteq {concCalls[b].tok}

C13_Witness ==
  /\ \A c \in Calls : /\ concCalls[c].from # {}
                      /\ DOMAIN concCalls[c].resp # {}
  /\ concCalls["A"].tok # concCalls["B"].tok

\* C14: within one call a single token is used throughout: it is the reply
\* routing key of the published ping, the prefix of the binding member and of
\* each of the four reply addresses the call pops from (Redis), and the name
\* and the binding routing key of the temporary queue (AMQP); the tokens of
\* two different calls are non-empty and distinct.
C14_OneTokenPerCall ==
  /\ \A c \in Calls :
       LET call == concCalls[c] IN
       /\ call.pubKey \subseteq {call.tok}
       /\ 0 \notin call.pubKey
       /\ transport = "redis" =>
            /\ \A b \in call.bound : b[1] = call.tok /\ b[2][1] = call.tok
            /\ \A k \in call.keys : k[1] = call.tok
            /\ call.pc = "loop" =>
                 \A i \in 1..4 : ReplyQueues(call.tok)[i][1] = call.tok
       /\ transport = "amqp" =>
            /\ call.declared \subseteq {call.tok}
            /\ \A b \in call.bound : b[1] = call.tok /\ b[2] = call.tok
            /\ call.keys \subseteq {call.tok}
       /\ call.pc \notin {"idle", "done"} => call.tok # 0
  /\ \A a \in Calls, b \in Calls :
       (a # b /\ concCalls[a].tok # 0 /\ concCalls[b].tok # 0)
       => concCalls[a].tok # concCalls[b].tok

C14_Witness ==
  /\ transport = "redis"
  /\ \A c \in Calls : /\ concCalls[c].pubKey # {}
                      /\ concCalls[c].bound # {}
                      /\ concCalls[c].keys # {}

C14_WitnessAMQP ==
  /\ transport = "amqp"
  /\ \A c \in Calls : /\ concCalls[c].pubKey # {}
                      /\ concCalls[c].declared # {}
                      /\ concCalls[c].bound # {}
                      /\ concCalls[c].keys # {}

(***************************************************************************)
(* Properties of Health and Close                                          *)
(***************************************************************************)

\* The transport was initialised: the Redis client is set; the AMQP
\* connection is set and not closed, and the channel is set.
Initialised ==
  IF transport = "redis" THEN rClient # "nil"
  ELSE aConnection \notin {"nil", "closed"} /\ aChannel # "nil"

\* C15: Health fails whenever the transport was never initialised (Redis
\* client nil; AMQP connection nil or closed, or channel nil) or the probe
\* errors, it succeeds only on an initialised transport whose probe
\* succeeds, and it changes no state.
C15_Health ==
  [][ probe'.n # probe.n =>
        /\ (probe'.err = "nil") <=>
             /\ Initialised
             /\ transport = "redis" =>
                  (rClient = "open" /\ brokerUp /\ ~probe'.cancelled)
        /\ UNCHANGED << rClient, aConnection, aChannel, brokerUp, published,
                        bindingSet, lists, queues, queueBindings, consumers,
                        msgs, msgsClosed, pc, responses, ret >> ]_vars

C15_Witness ==
  /\ probe.n > 0
  /\ transport = "amqp"
  /\ aConnection = "closed"
  /\ probe.err = "closed"

C15_WitnessHealthy == probe.n > 0 /\ probe.err = "nil" /\ transport = "redis"

\* The step is the return of a Close: RedisBroker.Close is one statement,
\* AMQPBroker.Close returns from its second one.
CloseReturns ==
  /\ ret'.op = "Close"
  /\ transport = "amqp" => lifecyclePc = "close.connection"

\* The step is the first statement of an AMQPBroker.Close.
CloseBegins == lifecyclePc = "idle" /\ lifecyclePc' = "close.connection"

\* C16: Close is idempotent: on a transport that was never connected it
\* returns nil and changes nothing, and a Close that follows a Close
\* returns what the first one returned and leaves the state the first one
\* left.
C16_CloseIdempotent ==
  [][ /\ (CloseReturns /\ ret.op # "Close" /\ rClient = "nil"
            /\ aConnection = "nil" /\ aChannel = "nil")
         => (ret'.err = "nil" /\ rClient' = "nil" /\ aConnection' = "nil"
               /\ aChannel' = "nil")
      /\ (CloseBegins /\ ret.op = "Close") => aChannel' = aChannel
      /\ (CloseReturns /\ ret.op = "Close")
         => (ret'.err = ret.err /\ rClient' = rClient
               /\ aConnection' = aConnection /\ aChannel' = aChannel) ]_vars

(***************************************************************************)
(* Properties of the handler                                               *)
(***************************************************************************)

\* The control message inside the bytes data: the document itself in the
\* raw format, the document in the base64 text of the body field in the
\* enveloped format.
InnerBody(data, format) ==
  IF format = MessageFormatRaw THEN JsonUnmarshalMap(data)
  ELSE ParseBodyBytes(Base64Decode(JsonUnmarshalMap(data).m[Lit.body].s))

\* The control message doc carries the destinations given and the fixed
\* fields of a ping.
CarriesPing(doc, destinations) ==
  /\ ~doc.err
  /\ {Lit.method, Lit.arguments, Lit.destination} \subseteq DOMAIN doc.m
  /\ doc.m[Lit.method] = JStr(Lit.ping)
  /\ doc.m[Lit.arguments] = JObj(EmptyMap)
  /\ doc.m[Lit.destination] # JArr(<<>>)
  /\ doc.m[Lit.destination] =
       IF Len(destinations) = 0 THEN JNull ELSE JArr(destinations)

\* C17: in both wire formats (for the enveloped one, in the base64-decoded
\* inner body) the message CreatePingMessage returns has destination null
\* when the destinations argument is nil or empty and otherwise exactly the
\* given identifiers in the given order, never an empty list; method is
\* "ping" and arguments is an empty mapping.
C17_DestinationEncoding ==
  \A i \in 1..Len(codecOut) :
    (codecOut[i].f = "CreatePingMessage"
       /\ codecIn.format \in {MessageFormatRaw, MessageFormatEnveloped})
    => /\ ~codecOut[i].v.err
       /\ CarriesPing(InnerBody(codecOut[i].v.data, codecIn.format),
                      codecIn.destinations)

C17_Witness ==
  /\ codecIn.op = "create"
  /\ codecIn.format = MessageFormatEnveloped
  /\ Len(codecIn.destinations) = MaxDestinations
  /\ codecIn.destinations[1] # codecIn.destinations[2]
  /\ Len(codecOut) > 0
  /\ ~codecOut[1].v.err

C17_WitnessBroadcast ==
  /\ codecIn.op = "create"
  /\ codecIn.format = MessageFormatRaw
  /\ codecIn.destinations = <<>>
  /\ Len(codecOut) > 0

\* The map m holds one of the identity fields with a non-empty string.
HasIdentityField(m) ==
  \E i \in 1..Len(IdentityFields) :
    /\ IdentityFields[i] \in DOMAIN m
    /\ m[IdentityFields[i]].t = "str"
    /\ m[IdentityFields[i]].s # <<>>

\* A top-level key with an @ maps to a nested structure whose ok field is
\* "pong".
HasPong(m) ==
  \E k \in DOMAIN m :
    /\ Contains(k, StrAt)
    /\ m[k].t = "obj"
    /\ StrOk \in DOMAIN m[k].o
    /\ m[k].o[StrOk] = JStr(StrPong)

\* An identity field is in the nested structure under the key sub.
HasNestedIdentity(m, sub) ==
  /\ sub \in DOMAIN m
  /\ m[sub].t = "obj"
  /\ HasIdentityField(m[sub].o)

\* The worker evidence of the two stated forms.
StatedEvidence(m) ==
  \/ HasPong(m)
  \/ HasIdentityField(m)
  \/ HasNestedIdentity(m, StrData)
  \/ HasNestedIdentity(m, IdentityFields[2])

\* The results of the applications of the function f so far.
Results(f) ==
  {codecOut[i].v : i \in {j \in 1..Len(codecOut) : codecOut[j].f = f}}

\* C18: ValidateResponse returns true exactly when the document carries
\* worker evidence in one of the two stated forms, a pong under a key with
\* an @ or an identity field with a non-empty string at top level or inside
\* a nested data or worker structure, and false for every other document.
C18_ValidExactlyOnStatedEvidence ==
  codecIn.op = "document"
  => \A valid \in Results("ValidateResponse") :
       valid = StatedEvidence(DocumentMaps[codecIn.doc])

\* C19: ExtractWorkerName finds an identity that appears only inside a
\* nested structure: for the document {"worker": {"hostname":
\* "worker3@host"}}, and for an identity field inside a nested data
\* structure, it returns the nested identity and not the empty string.
C19_NestedIdentityFound ==
  /\ (codecIn.op = "document" /\ Documents[codecIn.doc] = Doc.NestedWorker)
     => Results("ExtractWorkerName")
          \subseteq {DocumentMaps[codecIn.doc][IdentityFields[2]].o[IdentityFields[1]].s}
  /\ (codecIn.op = "document" /\ Documents[codecIn.doc] = Doc.NestedData)
     => Results("ExtractWorkerName")
          \subseteq {DocumentMaps[codecIn.doc][StrData].o[IdentityFields[1]].s}

\* C20: extraction is deterministic: two applications of ExtractWorkerName
\* to the same document return the same string, and two applications of
\* ValidateResponse the same boolean, also for documents with several keys
\* that hold an @ or several matches of the last-resort scan.
C20_DeterministicExtraction ==
  /\ Cardinality(Results("ExtractWorkerName")) <= 1
  /\ Cardinality(Results("ValidateResponse")) <= 1

(***************************************************************************)
(* C21                                                                     *)
(***************************************************************************)

\* The input of the run is a well-formed reply of a worker on the wire: a
\* pong under the name of the worker, or a document with only a hostname,
\* directly or in an envelope.
PongOnTheWire ==
  /\ codecIn.op = "payload"
  /\ WireInputs[codecIn.doc].kind \in {"pong", "hostname"}

\* C21: for every well-formed pong document (one top-level key W with an @
\* mapped to {"ok":"pong"}, or only a non-empty hostname H), directly as JSON
\* or as the base64 body of an envelope, ParseWorkerResponse succeeds,
\* ValidateResponse is true on its result and ExtractWorkerName gives W
\* (or H).
C21_PongDocumentDecodes ==
  PongOnTheWire =>
    \A i \in 1..Len(codecOut) :
      /\ codecOut[i].f = "ParseWorkerResponse" => ~codecOut[i].v.err
      /\ codecOut[i].f = "ValidateResponse" => codecOut[i].v = TRUE
      /\ codecOut[i].f = "ExtractWorkerName" =>
           codecOut[i].v = WireInputs[codecIn.doc].id

\* An enveloped document with only a hostname that has no @ was parsed,
\* validated and named.
C21_Witness ==
  /\ PongOnTheWire
  /\ WireInputs[codecIn.doc].kind = "hostname"
  /\ WireInputs[codecIn.doc].id = HostNames[2]
  /\ WireInputs[codecIn.doc].data # HostnameDocument(HostNames[2])
  /\ \A f \in {"ParseWorkerResponse", "ValidateResponse", "ExtractWorkerName"} :
       \E i \in 1..Len(codecOut) : codecOut[i].f = f

(***************************************************************************)
(* C22                                                                     *)
(***************************************************************************)

\* The text is one JSON value and nothing else.
IsJson(text) ==
  LET r == ScanValue(text, 1) IN r.ok /\ SkipWs(text, r.i) > Len(text)

\* The text is one JSON object.
IsJsonObject(text) == IsJson(text) /\ ScanValue(text, 1).v.t = "obj"

\* The text is the JSON value null.
IsJsonNull(text) == IsJson(text) /\ ScanValue(text, 1).v.t = "null"

\* The object that the text is.
ObjectOf(text) == ScanValue(text, 1).v.o

\* The object has a body that is a string.
HasStringBody(o) == StrBody \in DOMAIN o /\ o[StrBody].t = "str"

\* What ParseWorkerResponse is to give for the payload, with accepted(_) the
\* texts taken as a document: an error for a payload that is not accepted,
\* and for a string-valued body that is no base64 or whose bytes are not
\* accepted; the inner document for a body that is one; the outer document
\* when there is no string-valued body.  A null that is accepted gives the
\* empty document.
Unwrapped(data, objectOnly) ==
  LET Accepted(text) == IsJsonObject(text) \/ (~objectOnly /\ IsJsonNull(text))
      Document(text) == IF IsJsonObject(text) THEN ObjectOf(text) ELSE EmptyMap
  IN  IF ~Accepted(data) THEN [err |-> TRUE, m |-> EmptyMap]
      ELSE IF HasStringBody(Document(data))
           THEN LET body == Base64Decode(Document(data)[StrBody].s)
                IN  IF body.err \/ ~Accepted(body.text)
                    THEN [err |-> TRUE, m |-> EmptyMap]
                    ELSE [err |-> FALSE, m |-> Document(body.text)]
           ELSE [err |-> FALSE, m |-> Document(data)]

\* What ParseWorkerResponse made of the input payload agrees with r: an
\* error where r is one, else the document of r.
ParseGave(r) ==
  \A i \in 1..Len(codecOut) :
    codecOut[i].f = "ParseWorkerResponse" =>
      /\ codecOut[i].v.err = r.err
      /\ ~r.err => codecOut[i].v.m = r.m

\* C22: ParseWorkerResponse unwraps exactly one level and fails only on
\* ill-formed content: an error when the bytes are empty or not a JSON
\* object, or when a string-valued body is not base64 or does not decode to a
\* JSON object; the inner object (outer keys dropped) when the body is the
\* base64 of a JSON object; the outer document unchanged when there is no
\* body or the body is not a string.
C22_UnwrapsOneLevel ==
  codecIn.op = "payload" =>
    ParseGave(Unwrapped(WireInputs[codecIn.doc].data, TRUE))

\* C22 as the code has it: the same, except that the JSON value null, as
\* the payload or as the decoded body, is no error and gives the empty
\* document.
C22_UnwrapsOneLevelNullAccepted ==
  codecIn.op = "payload" =>
    ParseGave(Unwrapped(WireInputs[codecIn.doc].data, FALSE))

\* An envelope whose body is the base64 of another envelope was parsed: the
\* result is the inner envelope, its body still a base64 string.
C22_Witness ==
  /\ codecIn.op = "payload"
  /\ WireInputs[codecIn.doc].data = Wrapped(Wrapped(PongDocument(PongNames[1])))
  /\ \E i \in 1..Len(codecOut) :
       /\ codecOut[i].f = "ParseWorkerResponse"
       /\ ~codecOut[i].v.err
       /\ HasStringBody(codecOut[i].v.m)
       /\ codecOut[i].v.m = ObjectOf(Wrapped(PongDocument(PongNames[1])))

\* A body that is the base64 of null was parsed without an error.
C22_WitnessNullBody ==
  /\ codecIn.op = "payload"
  /\ WireInputs[codecIn.doc].kind = "null body"
  /\ \E i \in 1..Len(codecOut) :
       /\ codecOut[i].f = "ParseWorkerResponse"
       /\ ~codecOut[i].v.err
       /\ codecOut[i].v.m = EmptyMap

(***************************************************************************)
(* C23                                                                     *)
(***************************************************************************)

\* headers.expires of the ping message in the bytes data, in seconds.
HeaderExpires(data) ==
  TextInt(JsonUnmarshalMap(data).m[Lit.headers].o[Lit.expires].l)

\* The enveloped ping of the call was published, its binding is registered
\* and the deadline of the collection is set.
WindowOpen ==
  /\ pc \in {"sleep", "loop"}
  /\ Len(codecOut) = 1
  /\ codecOut[1].f = "CreatePingMessage"
  /\ ~codecOut[1].v.err

\* C23: the expiry of the envelope outlives the collection window: for every
\* positive timeout, headers.expires of the enveloped ping that
\* RedisBroker.Ping published is at or after the deadline of the collection
\* (publish time + timeout), in whole seconds.
C23_ExpiryOutlivesWindow ==
  WindowOpen =>
    HeaderExpires(codecOut[1].v.data) >= deadline \div TicksPerSecond

(***************************************************************************)
(* C24                                                                     *)
(***************************************************************************)

\* declareExchanges was called: what the broker decided and what was made.
Declared == codecIn.op = "declare" /\ Len(codecOut) = 1

\* The positions of the commands ops at which the exchange x is declared in
\* the given way.
DeclaredAt(ops, way, x) == { j \in 1..Len(ops) : ops[j] = <<way, x>> }

\* C24: Connect declares each of the two exchanges passively first; an
\* active declare of an exchange is issued only after the passive declare of
\* that same exchange failed, never when it succeeded; and the declaration
\* fails only if both the passive and the active declare of some exchange
\* fail.
C24_PassiveFirst ==
  Declared =>
    LET outcomes == codecOut[1].v.outcomes
        ops == codecOut[1].v.made.ops
        err == codecOut[1].v.made.err
    IN  /\ ops[1] = <<"passive", "celery.pidbox">>
        /\ err = "nil" =>
             \A x \in ExchangeNames : DeclaredAt(ops, "passive", x) # {}
        /\ \A x \in ExchangeNames :
             /\ Cardinality(DeclaredAt(ops, "passive", x)) <= 1
             /\ \A j \in DeclaredAt(ops, "active", x) :
                  /\ j > 1
                  /\ ops[j - 1] = <<"passive", x>>
                  /\ ~outcomes[x].passive
        /\ err # "nil" =>
             /\ err \in ExchangeNames
             /\ DeclaredAt(ops, "passive", err) # {}
             /\ DeclaredAt(ops, "active", err) # {}
             /\ ~outcomes[err].passive
             /\ ~outcomes[err].active

\* celery.pidbox was there and reply.celery.pidbox was not: the passive
\* declare of the second failed, its active declare was issued and failed
\* too, and the declaration failed.
C24_Witness ==
  /\ Declared
  /\ codecOut[1].v.outcomes["celery.pidbox"].passive
  /\ codecOut[1].v.made.ops =
       << <<"passive", "celery.pidbox">>, <<"passive", "reply.celery.pidbox">>,
          <<"active", "reply.celery.pidbox">> >>
  /\ codecOut[1].v.made.err = "reply.celery.pidbox"

(***************************************************************************)
(* C25                                                                     *)
(***************************************************************************)

\* The reply queue of the call exists and is bound to the reply exchange by
\* the token of the call.
ReplyQueueBound == replyTo \in queues /\ replyTo \in queueBindings

\* C25: in every run of AMQPBroker.Ping the reply queue is declared, then
\* bound to the reply exchange, and only then is the ping published; the
\* consumption stream is opened only after the publish; hence, while the
\* call runs on its open channel after the publish, the bound queue is
\* there for every reply routed with the token, and none is dropped for
\* lack of it.
C25_AMQPStepOrder ==
  /\ [][ transport = "amqp" =>
           /\ (queueBindings' \ queueBindings # {})
                => (queueBindings' \ queueBindings = {replyTo}
                    /\ replyTo \in queues)
           /\ (published' # published)
                => (published' = published \cup {replyTo} /\ ReplyQueueBound)
           /\ (consumers' \ consumers # {})
                => (consumers' \ consumers = {replyTo}
                    /\ replyTo \in published) ]_vars
  /\ []((transport = "amqp" /\ replyTo \in published /\ AMQPOk
           /\ pc \notin {"idle", "done"})
          => ReplyQueueBound)

\* A reply came between the publish and the opening of the consumption
\* stream, and waits in the queue of the call.
C25_Witness ==
  /\ transport = "amqp"
  /\ pc = "consume"
  /\ replyTo \in published
  /\ consumers = {}
  /\ ReplyQueueBound
  /\ msgs # <<>>

(***************************************************************************)
(* C26                                                                     *)
(***************************************************************************)

\* The step issues a BRPOP.
IssuesBRPop == pc # "brpop" /\ pc' = "brpop"

\* C26: in every run of RedisBroker.Ping that reaches collection the ping is
\* published first, then the binding member is added to the registry set,
\* then the fixed pause elapses, and only then is the first BRPOP issued; no
\* BRPOP is issued before the binding is registered.
C26_RedisStepOrder ==
  [][ transport = "redis" =>
        /\ (published' # published)
             => (published' = published \cup {replyTo}
                 /\ BindingKey(replyTo) \notin bindingSet)
        /\ (bindingSet' \ bindingSet # {})
             => (bindingSet' \ bindingSet = {BindingKey(replyTo)}
                 /\ replyTo \in published)
        /\ (pc = "sleep" /\ pc' # pc)
             => (BindingKey(replyTo) \in bindingSet /\ now' = now + SleepTicks)
        /\ IssuesBRPop
             => /\ pc = "loop"
                /\ replyTo \in published
                /\ BindingKey(replyTo) \in bindingSet
                /\ now >= (deadline - timeout) + SleepTicks ]_vars

\* The first BRPOP of a call was issued right after the pause.
C26_Witness ==
  /\ transport = "redis"
  /\ pc = "brpop"
  /\ replyTo \in published
  /\ BindingKey(replyTo) \in bindingSet
  /\ brpopUntil = startedAt + SleepTicks + BrpopTicks

(***************************************************************************)
(* C27                                                                     *)
(***************************************************************************)

\* The applications of the function f in the run.
Applications(f) == { i \in 1..Len(codecOut) : codecOut[i].f = f }

\* The URL parses, and its scheme is amqp or amqps whatever the case of its
\* letters.
IsAmqpUrl(brokerURL) ==
  /\ ~UrlParse(brokerURL).err
  /\ ToLower(GetScheme(Before(brokerURL, "#")).scheme)
       \in { <<"a", "m", "q", "p">>, <<"a", "m", "q", "p", "s">> }

\* What TestDetectBrokerType expects for its URLs.
TestDetectBrokerType ==
  (Url.Redis :> "redis") @@ (Url.Rediss :> "redis") @@ (Url.Amqp :> "amqp")
    @@ (Url.Amqps :> "amqp") @@ (Url.Kafka :> "redis") @@ (<<>> :> "redis")
    @@ (Url.NotAUrl :> "redis") @@ (Url.Upper :> "amqp")

\* C27: DetectBrokerType returns "amqp" exactly when the URL parses and its
\* scheme, compared without regard to case, is amqp or amqps; for every
\* other input (redis, rediss, an unknown scheme, the empty string, a URL
\* that does not parse or has no scheme) it returns "redis"; it returns
\* nothing else.
C27_DetectBrokerType ==
  \A i \in Applications("DetectBrokerType") :
    /\ codecOut[i].v \in {"amqp", "redis"}
    /\ codecOut[i].v = "amqp" <=> IsAmqpUrl(codecOut[i].arg)
    /\ codecOut[i].arg \in DOMAIN TestDetectBrokerType
         => codecOut[i].v = TestDetectBrokerType[codecOut[i].arg]

\* DetectBrokerType gave "redis" for a URL that starts with amqp:// and does
\* not parse.
C27_Witness ==
  \E i \in Applications("DetectBrokerType") :
    /\ codecOut[i].arg = Url.BadPort
    /\ UrlParse(codecOut[i].arg).err
    /\ codecOut[i].v = "redis"

\* DetectBrokerType gave "amqp" for a URL with the scheme in upper case.
C27_WitnessUpperCase ==
  \E i \in Applications("DetectBrokerType") :
    /\ codecOut[i].arg = Url.Upper
    /\ codecOut[i].v = "amqp"

(***************************************************************************)
(* C28                                                                     *)
(***************************************************************************)

\* The checks of a configuration, in their order: whether each passes.
ValidateChecks(c) ==
  << c.BrokerURL # <<>>,
     ~UrlParse(c.BrokerURL).err,
     c.BrokerType \in {"redis", "amqp"},
     Positive(c.Timeout),
     c.OutputFormat \in {ConfigLit.json, ConfigLit.text},
     c.MaxWorkers > 0 >>

\* The errors of the checks, in the same order.
ValidateErrors ==
  << "broker URL is required", "invalid broker URL format",
     "unsupported broker type", "timeout must be positive",
     "output format must be 'json' or 'text'",
     "max workers must be positive" >>

\* The error of the first check of the configuration that fails, "nil"
\* when every check passes.
FirstFailing(c) ==
  LET failing == { k \in 1..6 : ~ValidateChecks(c)[k] } IN
  IF failing = {} THEN "nil"
  ELSE ValidateErrors[CHOOSE k \in failing : \A j \in failing : k <= j]

\* C28: Validate returns nil exactly when the broker URL is non-empty and
\* parses, the broker type is redis or amqp, the timeout is positive, the
\* output format is json or text and MaxWorkers is positive; otherwise it
\* returns the error of the first of these checks that fails; and it does
\* not change the configuration.
C28_Validate ==
  /\ [](\A i \in Applications("Validate") :
          codecOut[i].v = FirstFailing(codecOut[i].arg))
  /\ []((initPc \in {"done", "exit"})
          => (initPc = "done" <=> FirstFailing(cfg) = "nil"))
  /\ [][(initPc = "validate" /\ initPc' # "validate") => cfg' = cfg]_vars

\* Validate gave the error of the timeout for a configuration whose
\* timeout is zero, whose output format is none and whose MaxWorkers is
\* zero.
C28_Witness ==
  \E i \in Applications("Validate") :
    /\ codecOut[i].arg.Timeout = Milliseconds(0)
    /\ codecOut[i].arg.OutputFormat = Val.xml
    /\ codecOut[i].arg.MaxWorkers = 0
    /\ codecOut[i].v = "timeout must be positive"

(***************************************************************************)
(* C29                                                                     *)
(***************************************************************************)

\* The fields of the configuration that have a flag and a variable of the
\* environment, with the name of each.
Layered ==
  [BrokerURL |-> [flag |-> "brokerURL", env |-> "BROKER_URL"],
   Timeout |-> [flag |-> "timeout", env |-> "BROKER_TIMEOUT"],
   OutputFormat |-> [flag |-> "format", env |-> "OUTPUT_FORMAT"],
   Verbose |-> [flag |-> "verbose", env |-> "VERBOSE"],
   Database |-> [flag |-> "database", env |-> "BROKER_DB"],
   Username |-> [flag |-> "username", env |-> "BROKER_USERNAME"],
   Password |-> [flag |-> "password", env |-> "BROKER_PASSWORD"]]

\* The flag of the field was given: its variable holds another value than
\* the one cobra gives it without the flag.
FlagGiven(field) == flags[Layered[field].flag] # NoFlags[Layered[field].flag]

\* The variable of the field is set in the environment and its text can be
\* parsed.
EnvGiven(field) ==
  /\ environ[Layered[field].env] # <<>>
  /\ field = "Database" => ~Atoi(environ["BROKER_DB"]).err
  /\ field = "Timeout" => ~ParseDuration(environ["BROKER_TIMEOUT"]).err

\* The value that the text of the variable of the field stands for.
EnvValue(field) ==
  IF field = "Database" THEN Atoi(environ["BROKER_DB"]).n
  ELSE IF field = "Timeout" THEN ParseDuration(environ["BROKER_TIMEOUT"]).d
  ELSE IF field = "Verbose"
  THEN environ["VERBOSE"] \in {ConfigLit.true, ConfigLit.one}
  ELSE environ[Layered[field].env]

\* C29: for each of broker URL, timeout, output format, verbose, database,
\* username and password, the value given by a flag wins over the value of
\* the variable of the environment, which wins over the default; a value
\* of the environment that cannot be parsed (BROKER_DB, BROKER_TIMEOUT)
\* leaves the value that was there.
C29_Precedence ==
  initPc # "start" =>
    \A field \in DOMAIN Layered :
      cfg[field] =
        IF FlagGiven(field) THEN flags[Layered[field].flag]
        ELSE IF EnvGiven(field) THEN EnvValue(field)
        ELSE DefaultConfig(NoEnv)[field]

\* A RedisBroker.Ping is between its first command and its return.
RedisPingRunning == transport = "redis" /\ pc \notin {"idle", "done"}

\* The end of the pause that follows the computing of the deadline.
PauseEnd == deadline - timeout + SleepTicks

\* The call is past its pause: in the loop, in a BRPOP, in the cleanup, or
\* back from them.
PastPause ==
  /\ transport = "redis"
  /\ \/ pc \in {"loop", "brpop", "srem", "del"}
     \/ PingReturned /\ Collected

\* No BRPOP is issued with less than its whole wait remaining before the
\* deadline, and a BRPOP is back when its wait is over.
PopsWithinDeadline ==
  /\ [][(pc = "loop" /\ pc' = "brpop") => deadline - now >= BrpopTicks]_vars
  /\ [](pc = "brpop" => (now <= brpopUntil /\ brpopUntil <= deadline))

\* C30: RedisBroker.Ping issues no BRPOP when less than the whole wait of a
\* BRPOP (1s) remains before the deadline; a running call returns, BRPOPs
\* returning within their wait and the clock advancing; and from the loop
\* on, and at the return, the clock is not past the deadline, whatever the
\* workers, the server and the caller do.
C30_ReturnsByDeadline ==
  /\ PopsWithinDeadline
  /\ [](PastPause => now <= deadline)
  /\ (RedisPingRunning ~> PingReturned)

\* C30, with the pause counted: as above, the clock from the loop on and at
\* the return being not past the later of the deadline and the end of the
\* 50ms pause.
C30_ReturnsByDeadlineOrPause ==
  /\ PopsWithinDeadline
  /\ [](PastPause => now <= (IF PauseEnd > deadline THEN PauseEnd ELSE deadline))
  /\ [](PastPause /\ timeout >= SleepTicks => now <= deadline)
  /\ (RedisPingRunning ~> PingReturned)

\* A Ping has returned after a BRPOP that ran its whole wait, a payload
\* taken before it: the loop ended on the deadline, or on the rest being
\* shorter than another wait.
C30_Witness ==
  /\ PingReturned
  /\ lastStep \in {"deadline", "remaining"}
  /\ timeout > BrpopTicks
  /\ DOMAIN written # {}
  /\ now = brpopUntil
  /\ now >= PauseEnd + BrpopTicks
  /\ now <= deadline

\* The timeout of the call leaves less than the wait of a BRPOP after the
\* pause.
ShortOfAPop == transport = "redis" /\ timeout - SleepTicks < BrpopTicks

\* Timeouts below one second, in milliseconds, as Config.Validate sees them.
SubSecondTimeouts == {1, 50, 999}

\* C31: a RedisBroker.Ping whose timeout leaves less than the wait of a
\* BRPOP (1s) after the 50ms pause issues no BRPOP, collects nothing and,
\* its loop reached, returns a non-nil empty map and a nil error, whatever
\* waits in the reply addresses; Config.Validate accepts timeouts below 1s
\* (looked at once, before the first call of the run).
C31_ShortTimeoutPopsNothing ==
  /\ ShortOfAPop =>
       /\ pc # "brpop"
       /\ responses = EmptyMap
       /\ (PingReturned /\ Collected)
            => ret = Return("Ping", FALSE, EmptyMap, "nil")
  /\ (pc = "idle" /\ ret = NoReturn) =>
       \A ms \in SubSecondTimeouts :
         Validate([DefaultConfig(NoEnv) EXCEPT !.Timeout = Milliseconds(ms)])
           = "nil"

\* A Ping with a timeout of one second is at the end of its cleanup, the
\* loop left without a pop, while the pong of a worker waits in one of its
\* reply addresses.
C31_Witness ==
  /\ ShortOfAPop
  /\ timeout = BrpopTicks
  /\ pc = "del"
  /\ lastStep = "remaining"
  /\ \E k \in DOMAIN lists :
       /\ \E i \in 1..4 : k = ReplyQueues(replyTo)[i]
       /\ Head(lists[k]) = 1
       /\ ~Decoded[1].err

\* A Ping with a timeout of one second has returned, replies having been
\* sent to it.
C31_WitnessReturned ==
  /\ ShortOfAPop
  /\ PingReturned
  /\ Collected
  /\ sent > 0
  /\ timeout = BrpopTicks

\* The ping of the running Redis call is out, and its cleanup has not
\* begun: a worker can have received it and be resolving the routing key of
\* its reply in the binding set.
WorkerCanResolve ==
  /\ transport = "redis"
  /\ pc \in {"sadd", "sleep", "loop", "brpop"}
  /\ replyTo \in published

\* C32: from the moment the ping of a RedisBroker.Ping is published until
\* the cleanup of the call, the binding member of the call's token is in the
\* binding set, so that a worker that resolves the reply routing key finds
\* it.
C32_BindingBeforePing ==
  WorkerCanResolve => BindingKey(replyTo) \in bindingSet

\* Call c is between its first command and its return, with its token.
InFlight(c) == concCalls[c].pc \notin {"idle", "done"}

\* The reply addresses of the token of call c.
ReplyKeysOf(c) == {ReplyQueues(concCalls[c].tok)[i] : i \in 1..4}

\* The keys whose list is not the same after the step.
ChangedKeys ==
  {k \in (DOMAIN concBroker.q) \cup (DOMAIN concBroker'.q) :
     \/ k \notin DOMAIN concBroker.q
     \/ k \notin DOMAIN concBroker'.q
     \/ concBroker'.q[k] # concBroker.q[k]}

\* C33: a step of a RedisBroker.Ping (setup, collection or cleanup) takes
\* from the binding set no member but the one of its own token and changes
\* or deletes no list but its own four reply addresses: the member and the
\* reply addresses of another call in flight are as they were before the
\* step, in every interleaving of two calls.
C33_CleanupIsolation ==
  [][ transport = "redis" =>
        \A a \in Calls :
          concCalls'[a] # concCalls[a] =>
            /\ concBroker.bindings \ concBroker'.bindings
                 \subseteq {BindingKey(concCalls[a].tok)}
            /\ ChangedKeys \subseteq ReplyKeysOf(a)
            /\ \A b \in Calls \ {a} :
                 InFlight(b) =>
                   /\ concCalls'[b] = concCalls[b]
                   /\ (BindingKey(concCalls[b].tok) \in concBroker'.bindings)
                        <=> (BindingKey(concCalls[b].tok) \in concBroker.bindings)
                   /\ ChangedKeys \cap ReplyKeysOf(b) = {} ]_vars

\* Call A, begun after call B, has collected a payload and finished its
\* cleanup while B is still in its loop: B's member is in the binding set
\* and a payload waits in one of B's reply addresses.
C33_Witness ==
  /\ transport = "redis"
  /\ concCalls["B"].tok = 1
  /\ concCalls["A"].tok = 2
  /\ concCalls["A"].pc = "done"
  /\ concCalls["A"].keys # {}
  /\ BindingKey(concCalls["A"].tok) \notin concBroker.bindings
  /\ concCalls["B"].pc = "loop"
  /\ BindingKey(concCalls["B"].tok) \in concBroker.bindings
  /\ ConcNonEmpty("B") # {}

\* C34: on one response document, every result of ValidateResponse is true
\* exactly when every result of ExtractWorkerName is a non-empty string: a
\* document that was validated is not discarded by the empty-name check of
\* the collector that follows.
C34_ValidateAgreesWithExtract ==
  \A valid \in Results("ValidateResponse") :
    \A workerName \in Results("ExtractWorkerName") :
      valid <=> (workerName # <<>>)

\* The worker names whose entry is not the same in the maps before and
\* after.
Touched(before, after) ==
  {w \in (DOMAIN before) \cup (DOMAIN after) :
     \/ w \notin DOMAIN before
     \/ w \notin DOMAIN after
     \/ after[w] # before[w]}

\* The keys of the document with an @ that are mapped to {"ok":"pong"}.
PongKeys(m) ==
  {k \in DOMAIN m :
     /\ Contains(k, StrAt)
     /\ m[k].t = "obj"
     /\ StrOk \in DOMAIN m[k].o
     /\ m[k].o[StrOk].t = "str"
     /\ m[k].o[StrOk].s = StrPong}

\* The payload at position i of the feed holds the pongs of several
\* workers.
SeveralPongs(i) ==
  LET response == ParseWorkerResponse(Feeds[codecIn.doc][i]) IN
  ~response.err /\ Cardinality(PongKeys(response.m)) >= 2

\* What C35 says of the processing of the payload at position i by one
\* loop, which had the map before, has the map after and wrote under name.
OneEntryPerPayload(i, before, after, name) ==
  /\ Cardinality(Touched(before, after)) <= 1
  /\ DOMAIN before \subseteq DOMAIN after
  /\ Touched(before, after) \subseteq {name}
  /\ SeveralPongs(i) =>
       /\ name \in PongKeys(ParseWorkerResponse(Feeds[codecIn.doc][i]).m)
       /\ DOMAIN after = (DOMAIN before) \cup {name}

\* C35: each payload processed by the Redis loop or the AMQP loop adds or
\* overwrites at most one entry of the result map; a document with the pongs
\* of several workers contributes the entry of exactly one of them; and the
\* map never has more entries than payloads were written from.
C35_OneEntryPerPayload ==
  codecIn.op = "collect" =>
    \A i \in 1..Len(codecOut) :
      /\ OneEntryPerPayload(i, Collected2(codecOut, i).redis,
                            codecOut[i].v.redis, codecOut[i].v.redisName)
      /\ OneEntryPerPayload(i, Collected2(codecOut, i).amqp,
                            codecOut[i].v.amqp, codecOut[i].v.amqpName)
      /\ Cardinality(DOMAIN codecOut[i].v.redis)
           <= Cardinality({j \in 1..i : codecOut[j].v.redisName # <<>>})
      /\ Cardinality(DOMAIN codecOut[i].v.amqp)
           <= Cardinality({j \in 1..i : codecOut[j].v.amqpName # <<>>})

\* A pong of one worker and then a document with the pongs of two others
\* were processed: the map of either loop has two entries, not three.
C35_Witness ==
  /\ codecIn.op = "collect"
  /\ Len(codecOut) = 2
  /\ ~SeveralPongs(1)
  /\ SeveralPongs(2)
  /\ Cardinality(DOMAIN codecOut[2].v.redis) = 2
  /\ Cardinality(DOMAIN codecOut[2].v.amqp) = 2
  /\ codecOut[2].v.redisName # codecOut[2].v.amqpName

\* C38: fed the same sequence of raw payloads, the Redis loop and the AMQP
\* loop build the same result map, every entry of it with the status "pong"
\* under the name of its worker.
C38_SameResultMap ==
  codecIn.op = "collect" =>
    \A i \in 1..Len(codecOut) :
      /\ codecOut[i].v.redis = codecOut[i].v.amqp
      /\ WellFormed(codecOut[i].v.redis)
      /\ WellFormed(codecOut[i].v.amqp)

\* The step is a RedisBroker.Connect, on a broker whose client was never
\* initialised, that returns an error.
FailedFirstConnect ==
  /\ transport = "redis"
  /\ pc = "idle"
  /\ rClient = "nil"
  /\ ret'.op = "Connect"
  /\ ret'.err # "nil"
  /\ (ret' # ret \/ rClient' # rClient)

\* C36: a RedisBroker.Connect that returns an error, the URL not parsing or
\* the probe failing, leaves the client uninitialised, so that the Ping
\* after it returns the error of the nil check and publishes nothing.
C36_FailedConnectLeavesNil ==
  [][FailedFirstConnect => rClient' = "nil"]_vars

\* The step is an AMQPBroker.Connect that returns an error after amqp.Dial
\* gave it a connection without an error: no channel could be made, an
\* exchange could not be declared, or the Health at its end found the
\* connection closed.
ConnectFailsAfterDial ==
  /\ transport = "amqp"
  /\ pc = "idle"
  /\ lifecyclePc # "idle"
  /\ lifecyclePc' = "idle"
  /\ ret'.op = "Connect"
  /\ ret'.err # "nil"

\* The step begins or continues, up to its first command, a Ping in the
\* state that such a Connect leaves: the connection closed, and the channel
\* nil or closed.
PingOnClosedConnection ==
  /\ transport = "amqp"
  /\ aConnection = "closed"
  /\ aChannel \in {"nil", "closed"}
  /\ pc \in {"idle", "declare"}
  /\ pc' # pc
  /\ ret'.op # "Close"
  /\ ret'.op # "Connect"

\* C37: when an AMQPBroker.Connect returns an error after the connection
\* was established (no channel, an exchange not declared, or the connection
\* lost before the Health at its end), the connection is closed, and so is
\* the channel if it opened one, before it returns; Health then returns an
\* error, and so does a Ping made in that state.
C37_ConnectReleasesOnFailure ==
  /\ [][ConnectFailsAfterDial =>
          /\ aConnection' = "closed"
          /\ aChannel' \in {"nil", "closed"}
          /\ AMQPHealth(aConnection', aChannel') # "nil"]_vars
  /\ [](transport = "amqp" /\ aConnection = "closed"
          => AMQPHealth(aConnection, aChannel) # "nil")
  /\ [][PingOnClosedConnection =>
          \/ pc' = "declare" /\ aConnection' = "closed"
          \/ pc' = "done" /\ ret'.op = "Ping" /\ ret'.err # "nil"]_vars

\* A Connect has returned the error of an exchange declaration, connection
\* and channel closed.
C37_Witness ==
  /\ transport = "amqp"
  /\ lifecyclePc = "idle"
  /\ ret = Return("Connect", TRUE, EmptyMap, "declare exchanges")
  /\ aConnection = "closed"
  /\ aChannel = "closed"

\* A Connect has returned the error of the Health at its end: the
\* connection was lost after the exchanges were declared, and nothing was
\* closed by the Connect.
C37_WitnessHealth ==
  /\ transport = "amqp"
  /\ lifecyclePc = "idle"
  /\ ret = Return("Connect", TRUE, EmptyMap, "closed")
  /\ aConnection = "closed"
  /\ aChannel = "closed"

\* The Ping after a Connect that failed on the channel, or on an exchange,
\* has returned an error.
C37_WitnessPing ==
  /\ transport = "amqp"
  /\ PingReturned
  /\ aConnection = "closed"
  /\ aChannel \in {"nil", "closed"}
  /\ ret.err \in {"not initialized", "declare reply queue"}

\* C39: when initConfig has layered the defaults, the environment and the
\* flags and the validation has passed, the broker type of the
\* configuration is the one DetectBrokerType gives for its URL, also when
\* the URL came from --broker-url.
C39_BrokerTypeOfUrl ==
  initPc = "done" => cfg.BrokerType = DetectBrokerType(cfg.BrokerURL)

====
